---- MODULE Spec2Model ----
(***************************************************************************)
(* Model of the playmarkets SDK: the PredictSDK facade (src/core/sdk.ts)   *)
(* over the in-memory storage adapter, with the odds/payout calculator     *)
(* (src/utils/odds.ts) and the validation predicates                       *)
(* (src/utils/validation.ts).                                              *)
(*                                                                         *)
(* Money is counted in cents (integers); a fee rate is counted in percent. *)
(* Math.round(x) of a non-negative rational n/d is Round(n, d); arithmetic *)
(* is exact, the rounding error of JavaScript doubles is not modelled.     *)
(* Calls run one at a time, each to completion; the error a call throws    *)
(* and the events it emits are fields of the handler's result.             *)
(* An optional field is a set: {} is undefined, {v} is the value v.        *)
(* Market and bet ids are the positions in the storage maps' insertion     *)
(* order (generateMarketId / generateBetId never repeat an id).            *)
(* Fields no operation reads (question text, description, appId, label,    *)
(* createdAt, resolvedAt) are left out of the records.                     *)
(* calls holds the placeBet, addFunds, resolveMarket and cancelMarket       *)
(* calls that run cut at their storage awaits; elsewhere it never changes. *)
(* storage holds a MemoryStorage and a LocalStorage given the same calls   *)
(* (src/adapters/storage.ts), emitter the listeners of the event emitter   *)
(* (src/utils/events.ts); the facade's actions leave both alone.           *)
(***************************************************************************)
EXTENDS Integers, Sequences, FiniteSets, TLC

VARIABLES markets, bets, users, now, calls, storage, emitter

vars == <<markets, bets, users, now, calls, storage, emitter>>

\* ------------------------------------------------------------ bounds
MaxMarkets == 2
MaxBets == 2
MaxTime == 2
MaxBalance == 400
MaxListeners == 2

\* ------------------------------------------------- program constants
defaultFeeRate == 2
\* SDKConfig.initialBalance as configured for this instance (default 1000.00).
initialBalance == 300
MaxFeeRate == 50

UserIds == {1, 2}
MarketIds == 1 .. MaxMarkets
OutcomeIds == 1 .. 3
BetAmounts == {0, 100, 200}
FundAmounts == {0, 100}

OK == "OK"
INVALID_INPUT == "INVALID_INPUT"
INVALID_CONFIG == "INVALID_CONFIG"
CONFLICT == "CONFLICT"
MARKET_NOT_FOUND == "MARKET_NOT_FOUND"
INSUFFICIENT_BALANCE == "INSUFFICIENT_BALANCE"

\* ------------------------------------------------------------ helpers
The(s) == CHOOSE x \in s : TRUE

\* Math.round of n/d for n >= 0, d > 0: the nearest integer, halves up.
Round(n, d) == (2 * n + d) \div (2 * d)

MapGet(m, k) == IF k \in DOMAIN m THEN m[k] ELSE 0

MapSet(m, k, v) == [x \in DOMAIN m \cup {k} |-> IF x = k THEN v ELSE m[x]]

EmptyMap == [x \in {} |-> 0]

\* ------------------------------------------------- odds.ts (pure)
\* calculateOdds with a seeded fault: the uniform values are those of a
\* two-outcome market.
calculateOddsBinaryPrior(market) ==
    LET n == Len(market.outcomes)
        totalPool == market.totalPool
    IN [i \in 1 .. n |->
          LET outcome == market.outcomes[i] IN
          IF outcome.totalBets = 0 \/ totalPool = 0
          THEN [outcome EXCEPT !.odds = <<2, 1>>, !.probability = <<1, 2>>]
          ELSE [outcome EXCEPT
                  !.odds = <<Round(totalPool * (100 - market.feeRate),
                                   outcome.totalBets), 100>>,
                  !.probability = <<Round(outcome.totalBets * 1000, totalPool),
                                    1000>>]]

\* calculateOdds with a seeded fault: the fee is not taken off the pool.
calculateOddsNoFee(market) ==
    LET n == Len(market.outcomes)
        totalPool == market.totalPool
    IN [i \in 1 .. n |->
          LET outcome == market.outcomes[i] IN
          IF outcome.totalBets = 0 \/ totalPool = 0
          THEN [outcome EXCEPT !.odds = <<n, 1>>, !.probability = <<1, n>>]
          ELSE [outcome EXCEPT
                  !.odds = <<Round(totalPool * 100, outcome.totalBets), 100>>,
                  !.probability = <<Round(outcome.totalBets * 1000, totalPool),
                                    1000>>]]

\* odds and probability are rationals <<numerator, denominator>>.
calculateOdds(market) ==
    LET n == Len(market.outcomes)
        totalPool == market.totalPool
    IN [i \in 1 .. n |->
          LET outcome == market.outcomes[i] IN
          IF outcome.totalBets = 0 \/ totalPool = 0
          THEN [outcome EXCEPT !.odds = <<n, 1>>, !.probability = <<1, n>>]
          ELSE [outcome EXCEPT
                  !.odds = <<Round(totalPool * (100 - market.feeRate),
                                   outcome.totalBets), 100>>,
                  !.probability = <<Round(outcome.totalBets * 1000, totalPool),
                                    1000>>]]

\* (outcome total + amount) / (payout pool after the bet), in hundredths.
calculatePotentialPayout(amount, outcomeId, market) ==
    IF outcomeId \notin DOMAIN market.outcomes THEN 0
    ELSE LET totalPool == market.totalPool + amount
             outcomePool == market.outcomes[outcomeId].totalBets + amount
         IN Round(outcomePool * 100 * 100, totalPool * (100 - market.feeRate))

\* betShare with a seeded fault: the fee is not taken off the pool.
betShareNoFee(market, winningOutcomeId, bet) ==
    Round(bet.amount * market.totalPool * 100,
          market.outcomes[winningOutcomeId].totalBets * 100)

\* One winning bet's rounded share of the payout pool, in cents.
betShare(market, winningOutcomeId, bet) ==
    Round(bet.amount * market.totalPool * (100 - market.feeRate),
          market.outcomes[winningOutcomeId].totalBets * 100)

\* refundAll with a seeded fault: a bettor's entry is overwritten by each of
\* their bets instead of added to.
RECURSIVE refundAllOverwrite(_, _)
refundAllOverwrite(bs, payouts) ==
    IF bs = <<>> THEN payouts
    ELSE refundAllOverwrite(Tail(bs), MapSet(payouts, Head(bs).bettorId, Head(bs).amount))

RECURSIVE refundAll(_, _)
refundAll(bs, payouts) ==
    IF bs = <<>> THEN payouts
    ELSE LET bet == Head(bs)
             currentPayout == MapGet(payouts, bet.bettorId)
         IN refundAll(Tail(bs), MapSet(payouts, bet.bettorId,
                                       currentPayout + bet.amount))

RECURSIVE shareWinners(_, _, _, _)
shareWinners(market, winningOutcomeId, bs, payouts) ==
    IF bs = <<>> THEN payouts
    ELSE LET bet == Head(bs)
             currentPayout == MapGet(payouts, bet.bettorId)
         IN IF bet.outcomeId = winningOutcomeId
            THEN shareWinners(market, winningOutcomeId, Tail(bs),
                     MapSet(payouts, bet.bettorId,
                            currentPayout + betShare(market, winningOutcomeId, bet)))
            ELSE shareWinners(market, winningOutcomeId, Tail(bs), payouts)

calculatePayouts(market, winningOutcomeId, bs) ==
    IF \/ winningOutcomeId \notin DOMAIN market.outcomes
       \/ market.outcomes[winningOutcomeId].totalBets = 0
    THEN refundAll(bs, EmptyMap)
    ELSE shareWinners(market, winningOutcomeId, bs, EmptyMap)

\* ------------------------------------------------- validation.ts (pure)
\* Each validator gives OK or the code of the error it throws.
\* validateCreateMarketInput with a seeded fault: a close time of now passes.
validateCreateMarketInputLate(input, t) ==
    IF ~input.question THEN INVALID_CONFIG
    ELSE IF input.nOutcomes < 2 THEN INVALID_CONFIG
    ELSE IF input.closesAt < t THEN INVALID_CONFIG
    ELSE IF input.feeRate # {} /\ (The(input.feeRate) < 0 \/ The(input.feeRate) > MaxFeeRate)
         THEN INVALID_CONFIG
    ELSE IF input.minBet # {} /\ input.maxBet # {} /\ The(input.minBet) > The(input.maxBet)
         THEN INVALID_CONFIG
    ELSE IF input.minBet # {} /\ The(input.minBet) < 0 THEN INVALID_CONFIG
    ELSE IF input.maxBet # {} /\ The(input.maxBet) < 0 THEN INVALID_CONFIG
    ELSE OK

validateCreateMarketInput(input, t) ==
    IF ~input.question THEN INVALID_CONFIG
    ELSE IF input.nOutcomes < 2 THEN INVALID_CONFIG
    ELSE IF input.closesAt <= t THEN INVALID_CONFIG
    ELSE IF input.feeRate # {} /\ (The(input.feeRate) < 0 \/ The(input.feeRate) > MaxFeeRate)
         THEN INVALID_CONFIG
    ELSE IF input.minBet # {} /\ input.maxBet # {} /\ The(input.minBet) > The(input.maxBet)
         THEN INVALID_CONFIG
    ELSE IF input.minBet # {} /\ The(input.minBet) < 0 THEN INVALID_CONFIG
    ELSE IF input.maxBet # {} /\ The(input.maxBet) < 0 THEN INVALID_CONFIG
    ELSE OK

\* validatePlaceBet with a seeded fault: the status check is left out.
validatePlaceBetAnyStatus(input, market, t) ==
    IF t > market.closesAt THEN INVALID_INPUT
    ELSE IF input.outcomeId \notin DOMAIN market.outcomes THEN INVALID_INPUT
    ELSE IF input.amount <= 0 THEN INVALID_INPUT
    ELSE IF market.minBet # {} /\ input.amount < The(market.minBet) THEN INVALID_INPUT
    ELSE IF market.maxBet # {} /\ input.amount > The(market.maxBet) THEN INVALID_INPUT
    ELSE IF market.allowedBettors # {} /\ input.bettorId \notin The(market.allowedBettors)
         THEN INVALID_INPUT
    ELSE OK

\* validatePlaceBet with a seeded fault: the maxBet check is left out.
validatePlaceBetNoMax(input, market, t) ==
    IF market.status # "OPEN" THEN INVALID_INPUT
    ELSE IF t > market.closesAt THEN INVALID_INPUT
    ELSE IF input.outcomeId \notin DOMAIN market.outcomes THEN INVALID_INPUT
    ELSE IF input.amount <= 0 THEN INVALID_INPUT
    ELSE IF market.minBet # {} /\ input.amount < The(market.minBet) THEN INVALID_INPUT
    ELSE IF market.allowedBettors # {} /\ input.bettorId \notin The(market.allowedBettors)
         THEN INVALID_INPUT
    ELSE OK

validatePlaceBet(input, market, t) ==
    IF market.status # "OPEN" THEN INVALID_INPUT
    ELSE IF t > market.closesAt THEN INVALID_INPUT
    ELSE IF input.outcomeId \notin DOMAIN market.outcomes THEN INVALID_INPUT
    ELSE IF input.amount <= 0 THEN INVALID_INPUT
    ELSE IF market.minBet # {} /\ input.amount < The(market.minBet) THEN INVALID_INPUT
    ELSE IF market.maxBet # {} /\ input.amount > The(market.maxBet) THEN INVALID_INPUT
    ELSE IF market.allowedBettors # {} /\ input.bettorId \notin The(market.allowedBettors)
         THEN INVALID_INPUT
    ELSE OK

validateResolveMarket(input, market) ==
    IF market.status # "RESOLVED" THEN INVALID_INPUT
    ELSE IF market.winningOutcomeId = {} THEN INVALID_INPUT
    ELSE IF input.winningOutcomeId \notin DOMAIN market.outcomes THEN INVALID_INPUT
    ELSE OK

\* ------------------------------------------------- sdk.ts
\* A handler maps the storage S = [markets, bets, users] to the storage it
\* leaves, the error it throws (OK when it returns) and the events it emits.
Store(m, b, u) == [markets |-> m, bets |-> b, users |-> u]

Result(S, err, evs) ==
    [markets |-> S.markets, bets |-> S.bets, users |-> S.users,
     err |-> err, events |-> evs]

newUser == [balance |-> initialBalance, totalBets |-> 0, totalWon |-> 0, totalLost |-> 0]

\* getOrCreateUser with a seeded fault: a fresh user is stored on every call.
getOrCreateUserReset(us, userId) ==
    [users |-> MapSet(us, userId, newUser),
     events |-> <<<<"user:created", userId>>>>]

\* [users, events] after getOrCreateUser(userId).
getOrCreateUser(us, userId) ==
    IF userId \in DOMAIN us
    THEN [users |-> us, events |-> <<>>]
    ELSE [users |-> MapSet(us, userId, newUser),
          events |-> <<<<"user:created", userId>>>>]

\* updateUserBalance with a seeded fault: the balance is not let below zero.
updateUserBalanceFloor(us, userId, delta) ==
    LET g == getOrCreateUser(us, userId)
        user == g.users[userId]
        floored == IF user.balance + delta < 0 THEN 0 ELSE user.balance + delta
        updated == IF delta > 0
                   THEN [user EXCEPT !.balance = floored, !.totalWon = @ + delta]
                   ELSE [user EXCEPT !.balance = floored, !.totalBets = @ - delta]
    IN [users |-> MapSet(g.users, userId, updated),
        events |-> g.events \o <<<<"user:balanceChanged", userId>>>>]

\* [users, events] after updateUserBalance(userId, delta).
updateUserBalance(us, userId, delta) ==
    LET g == getOrCreateUser(us, userId)
        user == g.users[userId]
        updated == IF delta > 0
                   THEN [user EXCEPT !.balance = @ + delta, !.totalWon = @ + delta]
                   ELSE [user EXCEPT !.balance = @ + delta, !.totalBets = @ - delta]
    IN [users |-> MapSet(g.users, userId, updated),
        events |-> g.events \o <<<<"user:balanceChanged", userId>>>>]

newOutcome(n) == [totalBets |-> 0, betCount |-> 0, odds |-> <<n, 1>>, probability |-> <<1, n>>]

createMarket(S, input, t) ==
    IF validateCreateMarketInput(input, t) # OK
    THEN Result(S, validateCreateMarketInput(input, t), <<>>)
    ELSE LET market == [outcomes |-> [i \in 1 .. input.nOutcomes |-> newOutcome(input.nOutcomes)],
                        status |-> "OPEN",
                        totalPool |-> 0,
                        feeRate |-> IF input.feeRate = {} THEN defaultFeeRate
                                    ELSE The(input.feeRate),
                        closesAt |-> input.closesAt,
                        winningOutcomeId |-> {},
                        cancelReason |-> {},
                        allowedBettors |-> input.allowedBettors,
                        minBet |-> input.minBet,
                        maxBet |-> input.maxBet]
         IN Result(Store(Append(S.markets, market), S.bets, S.users), OK,
                   <<<<"market:created", Len(S.markets) + 1>>>>)

\* A read: the storage as it was, the error thrown, and the value returned
\* ({} when the call throws).
Returned(S, err, value) ==
    [markets |-> S.markets, bets |-> S.bets, users |-> S.users,
     err |-> err, events |-> <<>>, value |-> value]

\* getMarket recomputes the odds of the stored market object and returns it.
getMarket(S, marketId) ==
    IF marketId \notin DOMAIN S.markets THEN Returned(S, OK, {})
    ELSE LET market == [S.markets[marketId] EXCEPT
                           !.outcomes = calculateOdds(S.markets[marketId])]
         IN Returned(Store([S.markets EXCEPT ![marketId] = market], S.bets, S.users),
                     OK, {market})

RECURSIVE sumBetCount(_)
sumBetCount(outcomes) ==
    IF outcomes = <<>> THEN 0 ELSE Head(outcomes).betCount + sumBetCount(Tail(outcomes))

getMarketStats(S, marketId) ==
    IF marketId \notin DOMAIN S.markets THEN Returned(S, MARKET_NOT_FOUND, {})
    ELSE LET market == S.markets[marketId]
         IN Returned(S, OK, {[totalPool |-> market.totalPool,
                              totalBets |-> sumBetCount(market.outcomes),
                              outcomeStats |-> market.outcomes]})

calculatePayout(S, marketId, outcomeId, amount) ==
    IF marketId \notin DOMAIN S.markets THEN Returned(S, MARKET_NOT_FOUND, {})
    ELSE Returned(S, OK, {calculatePotentialPayout(amount, outcomeId, S.markets[marketId])})

\* closeMarket with a seeded fault: a missing market is not reported.
closeMarketNoLookup(S, marketId) ==
    IF marketId \notin DOMAIN S.markets THEN Result(S, OK, <<<<"market:closed", marketId>>>>)
    ELSE Result(Store([S.markets EXCEPT ![marketId].status = "CLOSED"], S.bets, S.users),
                OK, <<<<"market:closed", marketId>>>>)

closeMarket(S, marketId) ==
    IF marketId \notin DOMAIN S.markets THEN Result(S, MARKET_NOT_FOUND, <<>>)
    ELSE Result(Store([S.markets EXCEPT ![marketId].status = "CLOSED"], S.bets, S.users),
                OK, <<<<"market:closed", marketId>>>>)

\* betIdsOf with a seeded fault: the bets are not filtered by market.
betIdsOfAll(bs, marketId, i) == [k \in 1..Len(bs) |-> k]

\* The ids of the stored bets on marketId, in storage order, from position i.
RECURSIVE betIdsOf(_, _, _)
betIdsOf(bs, marketId, i) ==
    IF i > Len(bs) THEN <<>>
    ELSE IF bs[i].marketId = marketId THEN <<i>> \o betIdsOf(bs, marketId, i + 1)
    ELSE betIdsOf(bs, marketId, i + 1)

\* resolveBet with a seeded fault: a losing bet is marked but not announced.
resolveBetSilentLoser(S, betId, winningOutcomeId, payouts) ==
    LET bet == S.bets[betId]
        isWinner == bet.outcomeId = winningOutcomeId
        payout == MapGet(payouts, bet.bettorId)
        saved == [S.bets EXCEPT ![betId].status = IF isWinner THEN "won" ELSE "lost",
                                ![betId].payout = IF isWinner THEN {payout} ELSE {0}]
    IN IF isWinner /\ payout > 0
       THEN LET u == updateUserBalance(S.users, bet.bettorId, payout)
            IN [markets |-> S.markets, bets |-> saved, users |-> u.users,
                events |-> u.events \o <<<<"bet:won", betId>>>>]
       ELSE [markets |-> S.markets, bets |-> saved, users |-> S.users,
             events |-> <<>>]

\* One turn of resolveMarket's loop over the market's bets: the bet is marked
\* won or lost, a winner with a positive payouts entry is credited that entry.
resolveBet(S, betId, winningOutcomeId, payouts) ==
    LET bet == S.bets[betId]
        isWinner == bet.outcomeId = winningOutcomeId
        payout == MapGet(payouts, bet.bettorId)
        saved == [S.bets EXCEPT ![betId].status = IF isWinner THEN "won" ELSE "lost",
                                ![betId].payout = IF isWinner THEN {payout} ELSE {0}]
    IN IF isWinner /\ payout > 0
       THEN LET u == updateUserBalance(S.users, bet.bettorId, payout)
            IN [markets |-> S.markets, bets |-> saved, users |-> u.users,
                events |-> u.events \o <<<<"bet:won", betId>>>>]
       ELSE [markets |-> S.markets, bets |-> saved, users |-> S.users,
             events |-> <<<<"bet:lost", betId>>>>]

RECURSIVE resolveLoop(_, _, _, _, _)
resolveLoop(S, ids, winningOutcomeId, payouts, evs) ==
    IF ids = <<>> THEN Result(S, OK, evs)
    ELSE LET r == resolveBet(S, Head(ids), winningOutcomeId, payouts)
         IN resolveLoop(Store(r.markets, r.bets, r.users), Tail(ids),
                        winningOutcomeId, payouts, evs \o r.events)

resolveMarket(S, input) ==
    IF input.marketId \notin DOMAIN S.markets THEN Result(S, MARKET_NOT_FOUND, <<>>)
    ELSE LET market == S.markets[input.marketId] IN
         IF validateResolveMarket(input, market) # OK
         THEN Result(S, validateResolveMarket(input, market), <<>>)
         ELSE LET ids == betIdsOf(S.bets, input.marketId, 1)
                  payouts == calculatePayouts(market, input.winningOutcomeId,
                                              [k \in DOMAIN ids |-> S.bets[ids[k]]])
                  resolved == [S.markets EXCEPT
                                 ![input.marketId].status = "RESOLVED",
                                 ![input.marketId].winningOutcomeId = {input.winningOutcomeId}]
                  r == resolveLoop(Store(resolved, S.bets, S.users), ids,
                                   input.winningOutcomeId, payouts, <<>>)
              IN [r EXCEPT !.events = @ \o <<<<"market:resolved", input.marketId>>>>]

\* refundBet with a seeded fault: the bet is marked refunded but the bettor
\* is not credited.
refundBetNoCredit(S, betId) ==
    [markets |-> S.markets,
     bets |-> [S.bets EXCEPT ![betId].status = "refunded",
                             ![betId].payout = {S.bets[betId].amount}],
     users |-> S.users,
     events |-> <<<<"bet:refunded", betId>>>>]

\* One turn of cancelMarket's loop: the bet is refunded to its bettor.
refundBet(S, betId) ==
    LET bet == S.bets[betId]
        saved == [S.bets EXCEPT ![betId].status = "refunded",
                                ![betId].payout = {bet.amount}]
        u == updateUserBalance(S.users, bet.bettorId, bet.amount)
    IN [markets |-> S.markets, bets |-> saved, users |-> u.users,
        events |-> u.events \o <<<<"bet:refunded", betId>>>>]

RECURSIVE cancelLoop(_, _, _)
cancelLoop(S, ids, evs) ==
    IF ids = <<>> THEN Result(S, OK, evs)
    ELSE LET r == refundBet(S, Head(ids))
         IN cancelLoop(Store(r.markets, r.bets, r.users), Tail(ids), evs \o r.events)

\* cancelConflict with a seeded fault: the wrong terminal status is tested.
cancelConflictCancelled(market) == market.status = "CANCELLED"

\* The status check cancelMarket makes before it refunds anything.
cancelConflict(market) == market.status = "RESOLVED"

cancelMarket(S, marketId, reason) ==
    IF marketId \notin DOMAIN S.markets THEN Result(S, MARKET_NOT_FOUND, <<>>)
    ELSE IF cancelConflict(S.markets[marketId]) THEN Result(S, CONFLICT, <<>>)
    ELSE LET r == cancelLoop(S, betIdsOf(S.bets, marketId, 1), <<>>)
             cancelled == [r.markets EXCEPT
                             ![marketId].status = "CANCELLED",
                             ![marketId].cancelReason = IF reason # {} THEN reason ELSE @]
         IN [r EXCEPT !.markets = cancelled,
                      !.events = @ \o <<<<"market:cancelled", marketId>>>>]

\* addStake with a seeded fault: the outcome's bet count is not raised.
addStakeNoCount(market, outcomeId, amount) ==
    LET staked == [market EXCEPT !.outcomes[outcomeId].totalBets = @ + amount,
                                 !.totalPool = @ + amount]
    IN [staked EXCEPT !.outcomes = calculateOdds(staked)]

\* addStake with a seeded fault: the stake is added to the outcome but not to
\* the pool.
addStakeOutcomeOnly(market, outcomeId, amount) ==
    LET staked == [market EXCEPT !.outcomes[outcomeId].totalBets = @ + amount,
                                 !.outcomes[outcomeId].betCount = @ + 1]
    IN [staked EXCEPT !.outcomes = calculateOdds(staked)]

\* The market after placeBet has added the stake to the outcome and the pool.
addStake(market, outcomeId, amount) ==
    LET staked == [market EXCEPT !.outcomes[outcomeId].totalBets = @ + amount,
                                 !.outcomes[outcomeId].betCount = @ + 1,
                                 !.totalPool = @ + amount]
    IN [staked EXCEPT !.outcomes = calculateOdds(staked)]

\* placeBet with a seeded fault: the balance is not compared with the amount.
placeBetUnchecked(S, input, t) ==
    IF input.marketId \notin DOMAIN S.markets THEN Result(S, MARKET_NOT_FOUND, <<>>)
    ELSE LET market == S.markets[input.marketId] IN
         IF validatePlaceBet(input, market, t) # OK
         THEN Result(S, validatePlaceBet(input, market, t), <<>>)
         ELSE LET g == getOrCreateUser(S.users, input.bettorId)
                  bet == [marketId |-> input.marketId,
                          bettorId |-> input.bettorId,
                          outcomeId |-> input.outcomeId,
                          amount |-> input.amount,
                          potentialPayout |->
                              calculatePotentialPayout(input.amount, input.outcomeId, market),
                          status |-> "confirmed",
                          payout |-> {},
                          oddsAtBet |-> calculateOdds(market)[input.outcomeId].odds]
                  u == updateUserBalance(g.users, input.bettorId, 0 - input.amount)
              IN Result(Store([S.markets EXCEPT ![input.marketId] =
                                   addStake(market, input.outcomeId, input.amount)],
                              Append(S.bets, bet), u.users),
                        OK,
                        g.events \o u.events \o <<<<"bet:placed", Len(S.bets) + 1>>>>)

placeBet(S, input, t) ==
    IF input.marketId \notin DOMAIN S.markets THEN Result(S, MARKET_NOT_FOUND, <<>>)
    ELSE LET market == S.markets[input.marketId] IN
         IF validatePlaceBet(input, market, t) # OK
         THEN Result(S, validatePlaceBet(input, market, t), <<>>)
         ELSE LET g == getOrCreateUser(S.users, input.bettorId) IN
              IF g.users[input.bettorId].balance < input.amount
              THEN Result(Store(S.markets, S.bets, g.users), INSUFFICIENT_BALANCE, g.events)
              ELSE LET bet == [marketId |-> input.marketId,
                               bettorId |-> input.bettorId,
                               outcomeId |-> input.outcomeId,
                               amount |-> input.amount,
                               potentialPayout |->
                                   calculatePotentialPayout(input.amount, input.outcomeId, market),
                               status |-> "confirmed",
                               payout |-> {},
                               oddsAtBet |-> calculateOdds(market)[input.outcomeId].odds]
                       u == updateUserBalance(g.users, input.bettorId, 0 - input.amount)
                   IN Result(Store([S.markets EXCEPT ![input.marketId] =
                                        addStake(market, input.outcomeId, input.amount)],
                                   Append(S.bets, bet), u.users),
                             OK,
                             g.events \o u.events \o <<<<"bet:placed", Len(S.bets) + 1>>>>)

\* addFunds with a seeded fault: the amount is not checked.
addFundsUnchecked(S, userId, amount) ==
    LET u == updateUserBalance(S.users, userId, amount)
    IN Result(Store(S.markets, S.bets, u.users), OK, u.events)

addFunds(S, userId, amount) ==
    IF amount <= 0 THEN Result(S, INVALID_INPUT, <<>>)
    ELSE LET u == updateUserBalance(S.users, userId, amount)
         IN Result(Store(S.markets, S.bets, u.users), OK, u.events)

\* isExpired with a seeded fault: the close time itself is not yet expired.
isExpiredStrict(market, t) == market.status = "OPEN" /\ t > market.closesAt

\* checkAndCloseExpiredMarkets' test of one market.
isExpired(market, t) == market.status = "OPEN" /\ t >= market.closesAt

\* The ids of the markets checkAndCloseExpiredMarkets closes, in storage order.
RECURSIVE expiredIds(_, _, _)
expiredIds(ms, t, i) ==
    IF i > Len(ms) THEN <<>>
    ELSE IF isExpired(ms[i], t) THEN <<i>> \o expiredIds(ms, t, i + 1)
    ELSE expiredIds(ms, t, i + 1)

\* closed is the list the call returns: the ids of the markets it closed.
checkAndCloseExpiredMarkets(S, t) ==
    LET ids == expiredIds(S.markets, t, 1)
    IN [markets |-> [i \in DOMAIN S.markets |->
                        IF isExpired(S.markets[i], t)
                        THEN [S.markets[i] EXCEPT !.status = "CLOSED"]
                        ELSE S.markets[i]],
        bets |-> S.bets,
        users |-> S.users,
        err |-> OK,
        events |-> [k \in DOMAIN ids |-> <<"market:closed", ids[k]>>],
        closed |-> ids]

\* ------------------------------------------------- adapters/storage.ts
\* MemoryStorage.importData: every entity of data replaces the stored entity
\* with its id. data.markets and data.bets map ids to entities.
importData(S, data) ==
    Store([i \in DOMAIN S.markets |->
              IF i \in DOMAIN data.markets THEN data.markets[i] ELSE S.markets[i]],
          [i \in DOMAIN S.bets |->
              IF i \in DOMAIN data.bets THEN data.bets[i] ELSE S.bets[i]],
          [u \in DOMAIN S.users \cup DOMAIN data.users |->
              IF u \in DOMAIN data.users THEN data.users[u] ELSE S.users[u]])

\* ------------------------------------------------- storage adapters
\* A string that is put together from parts is the sequence of its parts; an
\* entity id is one part and holds no colon; '' is the empty sequence.
prefix == "predict-sdk"

startsWith(key, p) == Len(key) >= Len(p) /\ SubSeq(key, 1, Len(p)) = p

slice(key, n) == SubSeq(key, n + 1, Len(key))

\* An empty id is falsy: the key then ends with the type.
getKey(type, id) ==
    IF id # <<>> THEN <<prefix, ":", type, ":">> \o id ELSE <<prefix, ":", type>>

\* The properties that types.ts declares optional; their values are sets.
Optional == {"winningOutcomeId", "payout"}

\* JSON.stringify leaves out the properties whose value is undefined.
stringify(obj) ==
    <<"json", [f \in {g \in DOMAIN obj : ~(g \in Optional /\ obj[g] = {})} |-> obj[f]]>>

parse(text) == text[2]

\* The browser's localStorage, a map from keys to strings, before any write.
emptyLocalStorage == [key \in {} |-> <<>>]

setItem(ls, key, text) == [k \in DOMAIN ls \cup {key} |-> IF k = key THEN text ELSE ls[k]]

removeItem(ls, key) == [k \in DOMAIN ls \ {key} |-> ls[k]]

\* localStorage.getItem: {} is null.
getItem(ls, key) == IF key \in DOMAIN ls THEN {ls[key]} ELSE {}

\* LocalStorage.getAllKeys: what follows the prefix in the keys that start
\* with getKey(type, '').
getAllKeys(ls, type) ==
    {slice(key, Len(getKey(type, <<>>))) :
        key \in {k \in DOMAIN ls : startsWith(k, getKey(type, <<>>))}}

\* LocalStorage.getAllMarkets reads the item under each key of getAllKeys.
localGetAllMarkets(ls) ==
    {parse(The(getItem(ls, key))) :
        key \in {k \in getAllKeys(ls, "market") : getItem(ls, k) # {}}}

\* LocalStorage.getAllBets, getAllUsers and the lists of exportData read the
\* item under getKey(type, key) for each key of getAllKeys.
localGetAll(ls, type) ==
    {parse(The(getItem(ls, getKey(type, key)))) :
        key \in {k \in getAllKeys(ls, type) : getItem(ls, getKey(type, k)) # {}}}

localExportData(ls) ==
    [markets |-> localGetAll(ls, "market"),
     bets |-> localGetAll(ls, "bet"),
     users |-> localGetAll(ls, "user")]

\* LocalStorage.getMarket, getBet, getUser.
localGet(ls, type, id) ==
    IF getItem(ls, getKey(type, id)) # {}
    THEN {parse(The(getItem(ls, getKey(type, id))))} ELSE {}

\* MemoryStorage: one Map from id to object for each type.
emptyMemory == [t \in {"market", "bet", "user"} |-> [id \in {} |-> <<>>]]

memoryGetAll(mem, type) == {mem[type][id] : id \in DOMAIN mem[type]}

memoryExportData(mem) ==
    [markets |-> memoryGetAll(mem, "market"),
     bets |-> memoryGetAll(mem, "bet"),
     users |-> memoryGetAll(mem, "user")]

\* One MemoryStorage and one LocalStorage before any call.
emptyStorage == [memory |-> emptyMemory, local |-> emptyLocalStorage]

\* saveMarket, saveBet, saveUser of either adapter.
save(sto, type, obj) ==
    [memory |-> [sto.memory EXCEPT ![type] = MapSet(@, obj.id, obj)],
     local |-> setItem(sto.local, getKey(type, obj.id), stringify(obj))]

\* deleteMarket, deleteBet of either adapter.
delete(sto, type, id) ==
    [memory |-> [sto.memory EXCEPT ![type] = [i \in DOMAIN @ \ {id} |-> @[i]]],
     local |-> removeItem(sto.local, getKey(type, id))]

\* The objects handed to the adapters.
StoredMarkets ==
    { [id |-> i, status |-> "OPEN", winningOutcomeId |-> {}] : i \in {<<"m1">>, <<"m2">>} }
    \cup { [id |-> i, status |-> "RESOLVED", winningOutcomeId |-> {1}] : i \in {<<"m1">>, <<"m2">>} }

StoredBets ==
    { [id |-> i, marketId |-> m, status |-> s, payout |-> {}] :
        i \in {<<"b1">>, <<"b2">>}, m \in {<<"m1">>, <<"m2">>}, s \in {"confirmed"} }
    \cup { [id |-> i, marketId |-> <<"m1">>, status |-> "refunded", payout |-> {100}] :
              i \in {<<"b1">>, <<"b2">>} }

StoredUsers == { [id |-> <<"u1">>, balance |-> b] : b \in {200, 300} }

\* ------------------------------------------------- event emitter
\* TypedEventEmitter over an EventEmitter (eventemitter3): for each event type
\* the list of its listeners in the order they were added; a listener is a
\* function fn and the flag once. A callback does not call the emitter.
EventTypes ==
    {"market:created", "market:resolved", "market:cancelled", "market:updated",
     "market:closed", "bet:placed", "bet:confirmed", "bet:won", "bet:lost",
     "bet:refunded", "user:created", "user:balanceChanged"}

\* The list of event types in onAny.
anyEventTypes ==
    {"market:created", "market:updated", "market:closed", "market:resolved",
     "market:cancelled", "bet:placed", "bet:won", "bet:lost", "bet:refunded",
     "user:created", "user:balanceChanged"}

\* The callbacks that callers pass to on, once and off.
Callbacks == {<<"callback", 1>>, <<"callback", 2>>}

\* The wildcard subscriptions: handler h is the closure of the h-th onAny call.
Handlers == {1, 2}

handler(h) == <<"handler", h>>

\* new TypedEventEmitter(): no listener; issued holds the unsubscribe
\* functions that on has returned, handlers counts the onAny calls, cancelled
\* holds the handlers whose unsubscribe function has been called.
newEmitter ==
    [listeners |-> [t \in EventTypes |-> <<>>], issued |-> {}, handlers |-> 0,
     cancelled |-> {}]

\* EventEmitter.on / once: the listener is added at the end of the list.
addListener(E, type, fn, isOnce) ==
    [E EXCEPT !.listeners[type] = Append(@, [fn |-> fn, once |-> isOnce])]

\* EventEmitter.off(event, fn): every listener of the type with that function
\* is removed.
removeListener(E, type, fn) ==
    LET others(l) == l.fn # fn
    IN [E EXCEPT !.listeners[type] = SelectSeq(@, others)]

on(E, type, callback) ==
    [addListener(E, type, callback, FALSE) EXCEPT !.issued = @ \cup {<<type, callback>>}]

\* once with a seeded fault: the listener is added with on.
onceKept(E, type, callback) == addListener(E, type, callback, FALSE)

once(E, type, callback) == addListener(E, type, callback, TRUE)

off(E, type, callback) == removeListener(E, type, callback)

\* The function that on(type, callback) returned.
unsubscribe(E, type, callback) == removeListener(E, type, callback)

\* emit(event): the listeners of event.type are called in order, the once
\* listeners are removed; invoked is the list of the functions called.
emit(E, type) ==
    LET kept(l) == ~l.once
    IN [emitter |-> [E EXCEPT !.listeners[type] = SelectSeq(@, kept)],
        invoked |-> [k \in DOMAIN E.listeners[type] |-> E.listeners[type][k].fn]]

RECURSIVE onEach(_, _, _)
onEach(E, types, fn) ==
    IF types = {} THEN E
    ELSE LET type == CHOOSE t \in types : TRUE
         IN onEach(addListener(E, type, fn, FALSE), types \ {type}, fn)

RECURSIVE offEach(_, _, _)
offEach(E, types, fn) ==
    IF types = {} THEN E
    ELSE LET type == CHOOSE t \in types : TRUE
         IN offEach(removeListener(E, type, fn), types \ {type}, fn)

\* onAny(callback): a new handler is added to each type of the list.
onAny(E) ==
    [onEach(E, anyEventTypes, handler(E.handlers + 1)) EXCEPT !.handlers = @ + 1]

\* The function that the h-th onAny call returned.
unsubscribeAny(E, h) ==
    [offEach(E, anyEventTypes, handler(h)) EXCEPT !.cancelled = @ \cup {h}]

\* ------------------------------------------------- state machine
Current == Store(markets, bets, users)

WithinBounds(r) ==
    /\ Len(r.markets) <= MaxMarkets
    /\ Len(r.bets) <= MaxBets
    /\ \A u \in DOMAIN r.users : r.users[u].balance <= MaxBalance

\* One completed call: the storage it leaves. The error it throws (r.err) and
\* the events it emits (r.events) are read off the handler's result; a call
\* that throws before its first write leaves the state as it was.
Apply(r) ==
    /\ WithinBounds(r)
    /\ markets' = r.markets
    /\ bets' = r.bets
    /\ users' = r.users
    /\ UNCHANGED <<now, calls, storage, emitter>>

BaseInput ==
    [question |-> TRUE, nOutcomes |-> 2, closesAt |-> 1, feeRate |-> {},
     minBet |-> {}, maxBet |-> {100}, allowedBettors |-> {}]

\* The createMarket inputs tried at time t: valid ones and one per rejection.
CreateInputs(t) ==
    { BaseInput,
      [BaseInput EXCEPT !.closesAt = 2, !.feeRate = {50}, !.minBet = {200},
                        !.maxBet = {200}, !.allowedBettors = {{1}}],
      [BaseInput EXCEPT !.question = FALSE],
      [BaseInput EXCEPT !.nOutcomes = 1],
      [BaseInput EXCEPT !.closesAt = t],
      [BaseInput EXCEPT !.feeRate = {51}],
      [BaseInput EXCEPT !.minBet = {300}, !.maxBet = {200}],
      [BaseInput EXCEPT !.minBet = {0 - 100}],
      [BaseInput EXCEPT !.maxBet = {0 - 100}] }

\* The placeBet inputs tried: every well-formed stake, an unknown outcome and
\* a zero amount.
BetInputs ==
    { [marketId |-> m, bettorId |-> u, outcomeId |-> o, amount |-> a] :
        m \in MarketIds, u \in UserIds, o \in {1, 2}, a \in BetAmounts \ {0} }
    \cup { [marketId |-> m, bettorId |-> u, outcomeId |-> 3, amount |-> 100] :
             m \in MarketIds, u \in UserIds }
    \cup { [marketId |-> m, bettorId |-> u, outcomeId |-> 1, amount |-> 0] :
             m \in MarketIds, u \in UserIds }

\* The placeBet calls that may be in flight together.
Calls == {1, 2}

\* A call that has not started. pc is the await the call is suspended at;
\* ref tells whether the user object the call holds is the one storage holds
\* ("stored") or one that storage no longer holds ("own", kept in own).
\* op names the method; todo is the part of the filtered getAllBets list that
\* a settlement loop has not reached yet, payouts its calculatePayouts map.
\* market is the copy of the market that a call over LocalStorage holds.
idleCall ==
    [pc |-> "idle", op |-> "none", input |-> {}, err |-> OK, ref |-> "none", own |-> {},
     found |-> FALSE, bet |-> {}, todo |-> <<>>, payouts |-> EmptyMap, market |-> {}]

Init ==
    /\ markets = <<>>
    /\ bets = <<>>
    /\ users = EmptyMap
    /\ now = 0
    /\ calls = [c \in Calls |-> idleCall]
    /\ emitter = newEmitter
    /\ storage = emptyStorage

CreateMarket(input) ==
    Apply(createMarket(Current, input, now))

CloseMarket(marketId) ==
    Apply(closeMarket(Current, marketId))

ResolveMarket(marketId, winningOutcomeId) ==
    Apply(resolveMarket(Current, [marketId |-> marketId,
                                  winningOutcomeId |-> winningOutcomeId]))

CancelMarket(marketId, reason) ==
    Apply(cancelMarket(Current, marketId, reason))

PlaceBet(input) ==
    Apply(placeBet(Current, input, now))

AddFunds(userId, amount) ==
    Apply(addFunds(Current, userId, amount))

GetOrCreateUser(userId) ==
    LET g == getOrCreateUser(users, userId)
    IN Apply(Result(Store(markets, bets, g.users), OK, g.events))

CheckAndCloseExpiredMarkets ==
    Apply(checkAndCloseExpiredMarkets(Current, now))

\* Date.now() advances between calls.
Tick ==
    /\ now < MaxTime
    /\ now' = now + 1
    /\ UNCHANGED <<markets, bets, users, calls, storage, emitter>>

\* importData of a snapshot in which one stored OPEN or CLOSED market has been
\* settled outside the facade: status RESOLVED, winningOutcomeId set.
ImportData(marketId, winningOutcomeId) ==
    /\ marketId \in DOMAIN markets
    /\ markets[marketId].status \in {"OPEN", "CLOSED"}
    /\ winningOutcomeId \in DOMAIN markets[marketId].outcomes
    /\ LET data == [markets |-> [i \in {marketId} |->
                                    [markets[marketId] EXCEPT
                                        !.status = "RESOLVED",
                                        !.winningOutcomeId = {winningOutcomeId}]],
                    bets |-> EmptyMap,
                    users |-> EmptyMap]
       IN Apply(Result(importData(Current, data), OK, <<>>))

Facade ==
    \/ \E input \in CreateInputs(now) : CreateMarket(input)
    \/ \E marketId \in MarketIds : CloseMarket(marketId)
    \/ \E marketId \in MarketIds, w \in OutcomeIds : ResolveMarket(marketId, w)
    \/ \E marketId \in MarketIds, reason \in {{"void"}} : CancelMarket(marketId, reason)
    \/ \E input \in BetInputs : PlaceBet(input)
    \/ \E userId \in UserIds, amount \in FundAmounts : AddFunds(userId, amount)
    \/ \E userId \in UserIds : GetOrCreateUser(userId)
    \/ CheckAndCloseExpiredMarkets
    \/ Tick

\* The facade's operations, called one at a time, on a fresh MemoryStorage.
Next == Facade

Spec == Init /\ [][Next]_vars

\* The market lifecycle over a storage that importData may also write: the
\* calls that create, fill, close, cancel and resolve markets.
NextImport ==
    \/ \E input \in CreateInputs(now) : CreateMarket(input)
    \/ \E input \in BetInputs : PlaceBet(input)
    \/ \E marketId \in MarketIds : CloseMarket(marketId)
    \/ \E marketId \in MarketIds, reason \in {{"void"}} : CancelMarket(marketId, reason)
    \/ \E marketId \in MarketIds, w \in OutcomeIds : ResolveMarket(marketId, w)
    \/ \E marketId \in MarketIds, w \in OutcomeIds : ImportData(marketId, w)

SpecImport == Init /\ [][NextImport]_vars

\* ------------------------------------------------- the two adapters
\* The variables of the SDK over its MemoryStorage.
sdkVars == <<markets, bets, users, now, calls, emitter>>

SaveMarket(market) ==
    /\ storage' = save(storage, "market", market)
    /\ UNCHANGED sdkVars

SaveBet(bet) ==
    /\ storage' = save(storage, "bet", bet)
    /\ UNCHANGED sdkVars

SaveUser(user) ==
    /\ storage' = save(storage, "user", user)
    /\ UNCHANGED sdkVars

DeleteMarket(id) ==
    /\ storage' = delete(storage, "market", id)
    /\ UNCHANGED sdkVars

DeleteBet(id) ==
    /\ storage' = delete(storage, "bet", id)
    /\ UNCHANGED sdkVars

\* One sequence of save and delete calls, made on a MemoryStorage and on a
\* LocalStorage over an empty localStorage.
NextStorage ==
    \/ \E market \in StoredMarkets : SaveMarket(market)
    \/ \E bet \in StoredBets : SaveBet(bet)
    \/ \E user \in StoredUsers : SaveUser(user)
    \/ \E market \in StoredMarkets : DeleteMarket(market.id)
    \/ \E bet \in StoredBets : DeleteBet(bet.id)

SpecStorage == Init /\ [][NextStorage]_vars

\* ------------------------------------------------- subscriptions
\* The event types that callers subscribe to by name.
SubscribedTypes == {"bet:placed", "bet:confirmed"}

\* The callbacks among the listeners of the type.
Listening(E, type) ==
    {k \in DOMAIN E.listeners[type] : E.listeners[type][k].fn \in Callbacks}

On(type, callback) ==
    /\ Cardinality(Listening(emitter, type)) < MaxListeners
    /\ emitter' = on(emitter, type, callback)
    /\ UNCHANGED <<markets, bets, users, now, calls, storage>>

Once(type, callback) ==
    /\ Cardinality(Listening(emitter, type)) < MaxListeners
    /\ emitter' = once(emitter, type, callback)
    /\ UNCHANGED <<markets, bets, users, now, calls, storage>>

Off(type, callback) ==
    /\ emitter' = off(emitter, type, callback)
    /\ UNCHANGED <<markets, bets, users, now, calls, storage>>

Unsubscribe(type, callback) ==
    /\ <<type, callback>> \in emitter.issued
    /\ emitter' = unsubscribe(emitter, type, callback)
    /\ UNCHANGED <<markets, bets, users, now, calls, storage>>

OnAny ==
    /\ emitter.handlers + 1 \in Handlers
    /\ emitter' = onAny(emitter)
    /\ UNCHANGED <<markets, bets, users, now, calls, storage>>

UnsubscribeAny(h) ==
    /\ h <= emitter.handlers
    /\ emitter' = unsubscribeAny(emitter, h)
    /\ UNCHANGED <<markets, bets, users, now, calls, storage>>

Emit(type) ==
    /\ emitter' = emit(emitter, type).emitter
    /\ UNCHANGED <<markets, bets, users, now, calls, storage>>

\* Subscriptions, cancellations and emitted events in any order.
NextEvents ==
    \/ \E type \in SubscribedTypes, callback \in Callbacks : On(type, callback)
    \/ \E type \in SubscribedTypes, callback \in Callbacks : Once(type, callback)
    \/ \E type \in SubscribedTypes, callback \in Callbacks : Off(type, callback)
    \/ \E type \in SubscribedTypes, callback \in Callbacks : Unsubscribe(type, callback)
    \/ OnAny
    \/ \E h \in Handlers : UnsubscribeAny(h)
    \/ \E type \in EventTypes : Emit(type)

SpecEvents == Init /\ [][NextEvents]_vars

\* ------------------------------------------------- payouts of one market
\* The markets the payout calculator is tried on: two or three outcomes, no
\* bet limits, the default fee rate and fee rates of 0, 0.33 and 0.5.
PayoutMarkets ==
    { [BaseInput EXCEPT !.maxBet = {}, !.feeRate = f, !.nOutcomes = n] :
        f \in {{}, {0}, {33}, {50}}, n \in {2, 3} }

\* The stakes placed on that market: amounts whose shares need rounding.
PayoutInputs ==
    { [marketId |-> 1, bettorId |-> u, outcomeId |-> o, amount |-> a] :
        u \in UserIds, o \in {1, 2}, a \in {1, 33, 100} }

\* The storage after createMarket of one of the markets on a fresh SDK.
InitPayouts ==
    /\ markets \in { createMarket(Store(<<>>, <<>>, EmptyMap), input, 0).markets :
                        input \in PayoutMarkets }
    /\ bets = <<>>
    /\ users = EmptyMap
    /\ now = 0
    /\ calls = [c \in Calls |-> idleCall]
    /\ emitter = newEmitter
    /\ storage = emptyStorage

NextPayouts == \E input \in PayoutInputs : PlaceBet(input)

\* One market filled by placeBet calls: the markets and bet lists
\* resolveMarket hands to calculatePayouts.
SpecPayouts == InitPayouts /\ [][NextPayouts]_vars

\* ------------------------------------------------- interleaved placeBet
\* placeBet is async: it yields at every await of a storage call, and another
\* call's segment may run there. MemoryStorage hands out the stored objects
\* themselves, so a write to a market or user object is seen by every holder
\* at once; saveUser of a new object for an id replaces the stored object and
\* leaves the old one with the calls that hold it.

\* The call has thrown err or returned (err = OK).
finish(call, err) ==
    [call EXCEPT !.pc = "done", !.err = err, !.ref = "none", !.own = {}, !.bet = {}]

\* The user object the call holds.
userOf(call) ==
    IF call.ref = "stored" THEN users[The(call.input).bettorId] ELSE The(call.own)

\* The calls after call c has put another object under userId: the calls that
\* held the stored object keep it as their own.
orphaned(cs, c, userId) ==
    [d \in Calls |->
        IF d # c /\ cs[d].ref = "stored" /\ The(cs[d].input).bettorId = userId
        THEN [cs[d] EXCEPT !.ref = "own", !.own = {users[userId]}]
        ELSE cs[d]]

\* placeBet up to the await in getOrCreateUser: the market is looked up, the
\* input validated, the bettor looked up (sdk.ts 258-265, 334).
PlaceBetCall(c, input) ==
    /\ calls[c].pc = "idle"
    /\ LET call == [calls[c] EXCEPT !.input = {input}, !.op = "placeBet"] IN
       calls' = [calls EXCEPT ![c] =
          IF input.marketId \notin DOMAIN markets THEN finish(call, MARKET_NOT_FOUND)
          ELSE IF validatePlaceBet(input, markets[input.marketId], now) # OK
               THEN finish(call, validatePlaceBet(input, markets[input.marketId], now))
          ELSE IF input.bettorId \in DOMAIN users
               THEN [call EXCEPT !.pc = "check", !.ref = "stored", !.found = TRUE]
          ELSE [call EXCEPT !.pc = "create"]]
    /\ UNCHANGED <<markets, bets, users, now, storage, emitter>>

\* getOrCreateUser after its lookup found nobody: a new user object is saved
\* under the id, whatever is stored there by now (sdk.ts 336-347).
PlaceBetCreateUser(c) ==
    /\ calls[c].pc = "create"
    /\ LET userId == The(calls[c].input).bettorId IN
       /\ users' = MapSet(users, userId, newUser)
       /\ calls' = [orphaned(calls, c, userId) EXCEPT
                       ![c].pc = "check", ![c].ref = "stored"]
    /\ UNCHANGED <<markets, bets, now, storage, emitter>>

\* placeBet from the balance check to the await in updateUserBalance: the
\* check reads the held user object, the stake is added to the stored market,
\* the bettor is looked up again for the debit (sdk.ts 266-296, 359).
PlaceBetCheck(c) ==
    /\ calls[c].pc = "check"
    /\ LET input == The(calls[c].input)
           market == markets[input.marketId]
           bet == [marketId |-> input.marketId,
                   bettorId |-> input.bettorId,
                   outcomeId |-> input.outcomeId,
                   amount |-> input.amount,
                   potentialPayout |->
                       calculatePotentialPayout(input.amount, input.outcomeId, market),
                   status |-> "confirmed",
                   payout |-> {},
                   oddsAtBet |-> calculateOdds(market)[input.outcomeId].odds]
       IN IF userOf(calls[c]).balance < input.amount
          THEN /\ calls' = [calls EXCEPT ![c] = finish(@, INSUFFICIENT_BALANCE)]
               /\ UNCHANGED markets
          ELSE /\ markets' = [markets EXCEPT ![input.marketId] =
                                  addStake(market, input.outcomeId, input.amount)]
               /\ calls' = [calls EXCEPT ![c].pc = "debit", ![c].ref = "stored",
                                         ![c].own = {}, ![c].bet = {bet}]
    /\ UNCHANGED <<bets, users, now, storage, emitter>>

\* updateUserBalance after its lookup: the held user object is debited and
\* saved under the id (sdk.ts 361-370).
PlaceBetDebit(c) ==
    /\ calls[c].pc = "debit"
    /\ LET input == The(calls[c].input)
           userId == input.bettorId
           held == [u \in {userId} |-> userOf(calls[c])]
           debited == updateUserBalance(held, userId, 0 - input.amount).users[userId]
       IN /\ users' = MapSet(users, userId, debited)
          /\ calls' = [(IF calls[c].ref = "own" THEN orphaned(calls, c, userId) ELSE calls)
                          EXCEPT ![c].pc = "save", ![c].ref = "none", ![c].own = {}]
    /\ UNCHANGED <<markets, bets, now, storage, emitter>>

\* saveBet, saveMarket (the stored market object itself) and the return
\* (sdk.ts 298-303).
PlaceBetSave(c) ==
    /\ calls[c].pc = "save"
    /\ bets' = Append(bets, The(calls[c].bet))
    /\ calls' = [calls EXCEPT ![c] = finish(@, OK)]
    /\ UNCHANGED <<markets, users, now, storage, emitter>>

\* The inputs of the interleaved calls: the well-formed stakes on the first
\* market.
RaceInputs ==
    {input \in BetInputs :
        input.marketId = 1 /\ input.outcomeId \in {1, 2} /\ input.amount > 0}

\* Two placeBet calls interleaved at their awaits, on one market, among calls
\* that set the scene one at a time.
NextRace ==
    \/ \E input \in CreateInputs(now) : markets = <<>> /\ CreateMarket(input)
    \/ \E userId \in UserIds : GetOrCreateUser(userId)
    \/ Tick
    \/ \E c \in Calls, input \in RaceInputs : PlaceBetCall(c, input)
    \/ \E c \in Calls : PlaceBetCreateUser(c)
    \/ \E c \in Calls : PlaceBetCheck(c)
    \/ \E c \in Calls : PlaceBetDebit(c)
    \/ \E c \in Calls : PlaceBetSave(c)

SpecRace == Init /\ [][NextRace]_vars

\* ------------------------------------------------- interleaved addFunds
\* The amounts of the interleaved addFunds calls.
FundRaceAmounts == {0, 100, 200}

\* addFunds up to the await in getOrCreateUser: the amount is checked and the
\* user looked up (sdk.ts 376-379, 359, 334). The call's user id is kept
\* under bettorId, where userOf and orphaned read it.
AddFundsCall(c, userId, amount) ==
    /\ calls[c].pc = "idle"
    /\ LET call == [calls[c] EXCEPT !.input = {[bettorId |-> userId, amount |-> amount]},
                                    !.op = "addFunds"] IN
       calls' = [calls EXCEPT ![c] =
          IF amount <= 0 THEN finish(call, INVALID_INPUT)
          ELSE IF userId \in DOMAIN users
               THEN [call EXCEPT !.pc = "credit", !.ref = "stored", !.found = TRUE]
          ELSE [call EXCEPT !.pc = "register"]]
    /\ UNCHANGED <<markets, bets, users, now, storage, emitter>>

\* getOrCreateUser after its lookup found nobody: a new user object is saved
\* under the id, whatever is stored there by now (sdk.ts 336-347).
AddFundsCreateUser(c) ==
    /\ calls[c].pc = "register"
    /\ LET userId == The(calls[c].input).bettorId IN
       /\ users' = MapSet(users, userId, newUser)
       /\ calls' = [orphaned(calls, c, userId) EXCEPT
                       ![c].pc = "credit", ![c].ref = "stored"]
    /\ UNCHANGED <<markets, bets, now, storage, emitter>>

\* updateUserBalance after getOrCreateUser: the held user object is credited
\* and saved under the id, and the call returns (sdk.ts 361-372).
AddFundsCredit(c) ==
    /\ calls[c].pc = "credit"
    /\ LET input == The(calls[c].input)
           userId == input.bettorId
           held == [u \in {userId} |-> userOf(calls[c])]
           credited == updateUserBalance(held, userId, input.amount).users[userId]
       IN /\ users' = MapSet(users, userId, credited)
          /\ calls' = [(IF calls[c].ref = "own" THEN orphaned(calls, c, userId) ELSE calls)
                          EXCEPT ![c] = finish(calls[c], OK)]
    /\ UNCHANGED <<markets, bets, now, storage, emitter>>

\* Two addFunds calls interleaved at their awaits, among getOrCreateUser
\* calls that run alone.
NextFundsRace ==
    \/ \E userId \in UserIds : GetOrCreateUser(userId)
    \/ \E c \in Calls, userId \in UserIds, amount \in FundRaceAmounts :
           AddFundsCall(c, userId, amount)
    \/ \E c \in Calls : AddFundsCreateUser(c)
    \/ \E c \in Calls : AddFundsCredit(c)

SpecFundsRace == Init /\ [][NextFundsRace]_vars

\* ------------------------------------------------- placeBet over LocalStorage
\* LocalStorage hands out JSON.parse of the stored string: every get returns
\* a copy of its own, and a write to it reaches the storage with the save
\* only (part_000 116-130, 158-165). markets, bets and users are the stored
\* items here; a call keeps its copies in market and own.

\* placeBet up to the await in getOrCreateUser: the call gets its copy of the
\* market, validates the input and looks the bettor up (sdk.ts 258-265, 334).
CopyBetCall(c, input) ==
    /\ calls[c].pc = "idle"
    /\ LET call == [calls[c] EXCEPT !.input = {input}, !.op = "placeBet"] IN
       calls' = [calls EXCEPT ![c] =
          IF input.marketId \notin DOMAIN markets THEN finish(call, MARKET_NOT_FOUND)
          ELSE IF validatePlaceBet(input, markets[input.marketId], now) # OK
               THEN finish(call, validatePlaceBet(input, markets[input.marketId], now))
          ELSE IF input.bettorId \in DOMAIN users
               THEN [call EXCEPT !.pc = "copyCheck", !.market = {markets[input.marketId]},
                                 !.own = {users[input.bettorId]}, !.found = TRUE]
          ELSE [call EXCEPT !.pc = "copyCreate", !.market = {markets[input.marketId]}]]
    /\ UNCHANGED <<markets, bets, users, now, storage, emitter>>

\* getOrCreateUser after its lookup found nobody (sdk.ts 336-347).
CopyBetCreateUser(c) ==
    /\ calls[c].pc = "copyCreate"
    /\ users' = MapSet(users, The(calls[c].input).bettorId, newUser)
    /\ calls' = [calls EXCEPT ![c].pc = "copyCheck", ![c].own = {newUser}]
    /\ UNCHANGED <<markets, bets, now, storage, emitter>>

\* placeBet from the balance check to the await in updateUserBalance: the
\* stake is added to the call's copy of the market, the bettor is read again
\* for the debit (sdk.ts 266-296, 359).
CopyBetCheck(c) ==
    /\ calls[c].pc = "copyCheck"
    /\ LET input == The(calls[c].input)
           market == The(calls[c].market)
           bet == [marketId |-> input.marketId,
                   bettorId |-> input.bettorId,
                   outcomeId |-> input.outcomeId,
                   amount |-> input.amount,
                   potentialPayout |->
                       calculatePotentialPayout(input.amount, input.outcomeId, market),
                   status |-> "confirmed",
                   payout |-> {},
                   oddsAtBet |-> calculateOdds(market)[input.outcomeId].odds]
       IN calls' = [calls EXCEPT ![c] =
             IF The(calls[c].own).balance < input.amount
             THEN [finish(@, INSUFFICIENT_BALANCE) EXCEPT !.market = {}]
             ELSE [@ EXCEPT !.pc = "copyDebit",
                            !.market = {addStake(market, input.outcomeId, input.amount)},
                            !.own = {users[input.bettorId]},
                            !.bet = {bet}]]
    /\ UNCHANGED <<markets, bets, users, now, storage, emitter>>

\* updateUserBalance after its lookup: the copy of the user is debited and
\* saved (sdk.ts 361-370).
CopyBetDebit(c) ==
    /\ calls[c].pc = "copyDebit"
    /\ LET input == The(calls[c].input)
           held == [u \in {input.bettorId} |-> The(calls[c].own)]
       IN users' = MapSet(users, input.bettorId,
                          updateUserBalance(held, input.bettorId,
                                            0 - input.amount).users[input.bettorId])
    /\ calls' = [calls EXCEPT ![c].pc = "copySave", ![c].own = {}]
    /\ UNCHANGED <<markets, bets, now, storage, emitter>>

\* saveBet, saveMarket of the call's copy, and the return (sdk.ts 298-303).
CopyBetSave(c) ==
    /\ calls[c].pc = "copySave"
    /\ bets' = Append(bets, The(calls[c].bet))
    /\ markets' = [markets EXCEPT ![The(calls[c].input).marketId] = The(calls[c].market)]
    /\ calls' = [calls EXCEPT ![c] = [finish(@, OK) EXCEPT !.market = {}]]
    /\ UNCHANGED <<users, now, storage, emitter>>

\* Two placeBet calls over LocalStorage on one market, interleaved at their
\* awaits, among calls that set the scene one at a time.
NextCopyRace ==
    \/ \E input \in CreateInputs(now) : markets = <<>> /\ CreateMarket(input)
    \/ \E userId \in UserIds : GetOrCreateUser(userId)
    \/ \E c \in Calls, input \in RaceInputs : CopyBetCall(c, input)
    \/ \E c \in Calls : CopyBetCreateUser(c)
    \/ \E c \in Calls : CopyBetCheck(c)
    \/ \E c \in Calls : CopyBetDebit(c)
    \/ \E c \in Calls : CopyBetSave(c)

SpecCopyRace == Init /\ [][NextCopyRace]_vars

\* ------------------------------------------------- resolveMarket in steps
\* persistResolved with a seeded fault: the market is not written before the
\* loop over the bets.
persistResolvedLate(market, winningOutcomeId) == market

\* The market object after resolveMarket's writes ahead of its loop; the
\* object is the stored one, saveMarket stores it again (sdk.ts 170-173).
persistResolved(market, winningOutcomeId) ==
    [market EXCEPT !.status = "RESOLVED", !.winningOutcomeId = {winningOutcomeId}]

\* No call is between its first segment and its return.
NoneInFlight == \A c \in Calls : calls[c].pc \in {"idle", "done"}

\* resolveMarket up to the await of getAllBets: the market is looked up, the
\* input validated, the list of stored bets taken (sdk.ts 150-157).
ResolveCall(c, input) ==
    /\ NoneInFlight
    /\ WithinBounds(resolveMarket(Current, input))
    /\ LET call == [idleCall EXCEPT !.input = {input}, !.op = "resolveMarket"] IN
       calls' = [calls EXCEPT ![c] =
          IF input.marketId \notin DOMAIN markets THEN finish(call, MARKET_NOT_FOUND)
          ELSE IF validateResolveMarket(input, markets[input.marketId]) # OK
               THEN finish(call, validateResolveMarket(input, markets[input.marketId]))
          ELSE [call EXCEPT !.pc = "persist",
                            !.todo = betIdsOf(bets, input.marketId, 1)]]
    /\ UNCHANGED <<markets, bets, users, now, storage, emitter>>

\* resolveMarket from the filter to the await of saveMarket: the payouts are
\* calculated and the market is marked (sdk.ts 158-173).
ResolvePersist(c) ==
    /\ calls[c].pc = "persist"
    /\ LET input == The(calls[c].input)
           ids == calls[c].todo
       IN /\ calls' = [calls EXCEPT
                          ![c].pc = "loop",
                          ![c].payouts = calculatePayouts(markets[input.marketId],
                                             input.winningOutcomeId,
                                             [k \in DOMAIN ids |-> bets[ids[k]]])]
          /\ markets' = [markets EXCEPT ![input.marketId] =
                             persistResolved(@, input.winningOutcomeId)]
    /\ UNCHANGED <<bets, users, now, storage, emitter>>

\* One turn of resolveMarket's loop (sdk.ts 175-189).
ResolveBet(c) ==
    /\ calls[c].pc = "loop"
    /\ calls[c].todo # <<>>
    /\ LET r == resolveBet(Current, Head(calls[c].todo),
                           The(calls[c].input).winningOutcomeId, calls[c].payouts)
       IN /\ bets' = r.bets
          /\ users' = r.users
    /\ calls' = [calls EXCEPT ![c].todo = Tail(@)]
    /\ UNCHANGED <<markets, now, storage, emitter>>

\* The end of the loop: market:resolved is emitted and the market returned
\* (sdk.ts 191-197).
ResolveReturn(c) ==
    /\ calls[c].pc = "loop"
    /\ calls[c].todo = <<>>
    /\ calls' = [calls EXCEPT ![c] = [finish(@, OK) EXCEPT !.payouts = EmptyMap]]
    /\ UNCHANGED <<markets, bets, users, now, storage, emitter>>

\* One resolveMarket call at a time, cut at its awaits, on one market that
\* was created, filled and stored as RESOLVED while no call was running.
NextResolveSteps ==
    \/ \E input \in CreateInputs(now) :
           NoneInFlight /\ markets = <<>> /\ CreateMarket(input)
    \/ \E input \in RaceInputs : NoneInFlight /\ PlaceBet(input)
    \/ \E marketId \in MarketIds, w \in OutcomeIds : NoneInFlight /\ ImportData(marketId, w)
    \/ \E marketId \in MarketIds, w \in OutcomeIds :
           ResolveCall(1, [marketId |-> marketId, winningOutcomeId |-> w])
    \/ ResolvePersist(1)
    \/ ResolveBet(1)
    \/ ResolveReturn(1)

SpecResolveSteps == Init /\ [][NextResolveSteps]_vars

\* ------------------------------------------------- cancelMarket in steps
\* cancelMarket up to the await of getAllBets: the market is looked up, its
\* status checked, the list of stored bets taken (sdk.ts 201-213).
CancelCall(c, marketId, reason) ==
    /\ calls[c].pc = "idle"
    /\ LET call == [calls[c] EXCEPT !.input = {[marketId |-> marketId, reason |-> reason]},
                                    !.op = "cancelMarket"] IN
       calls' = [calls EXCEPT ![c] =
          IF marketId \notin DOMAIN markets THEN finish(call, MARKET_NOT_FOUND)
          ELSE IF cancelConflict(markets[marketId]) THEN finish(call, CONFLICT)
          ELSE [call EXCEPT !.pc = "refund", !.todo = betIdsOf(bets, marketId, 1)]]
    /\ UNCHANGED <<markets, bets, users, now, storage, emitter>>

\* One turn of cancelMarket's loop over the list it took (sdk.ts 216-223).
CancelRefund(c) ==
    /\ calls[c].pc = "refund"
    /\ calls[c].todo # <<>>
    /\ LET r == refundBet(Current, Head(calls[c].todo))
       IN /\ bets' = r.bets
          /\ users' = r.users
    /\ calls' = [calls EXCEPT ![c].todo = Tail(@)]
    /\ UNCHANGED <<markets, now, storage, emitter>>

\* The end of the loop: the market is marked CANCELLED, saved and returned
\* (sdk.ts 225-233).
CancelReturn(c) ==
    /\ calls[c].pc = "refund"
    /\ calls[c].todo = <<>>
    /\ LET input == The(calls[c].input) IN
       markets' = [markets EXCEPT
                      ![input.marketId].status = "CANCELLED",
                      ![input.marketId].cancelReason =
                          IF input.reason # {} THEN input.reason ELSE @]
    /\ calls' = [calls EXCEPT ![c] = finish(@, OK)]
    /\ UNCHANGED <<bets, users, now, storage, emitter>>

\* placeBet and cancelMarket calls on one market, interleaved at their
\* awaits, after placeBet calls that ran alone.
NextCancelRace ==
    \/ \E input \in CreateInputs(now) : markets = <<>> /\ CreateMarket(input)
    \/ \E input \in RaceInputs : (\A c \in Calls : calls[c].pc = "idle") /\ PlaceBet(input)
    \/ \E c \in Calls, input \in RaceInputs : PlaceBetCall(c, input)
    \/ \E c \in Calls : PlaceBetCreateUser(c)
    \/ \E c \in Calls : PlaceBetCheck(c)
    \/ \E c \in Calls : PlaceBetDebit(c)
    \/ \E c \in Calls : PlaceBetSave(c)
    \/ \E c \in Calls : CancelCall(c, 1, {"void"})
    \/ \E c \in Calls : CancelRefund(c)
    \/ \E c \in Calls : CancelReturn(c)

SpecCancelRace == Init /\ [][NextCancelRace]_vars

\* ------------------------------------------------- claims
Terminal(market) == market.status \in {"RESOLVED", "CANCELLED"}

\* The balance getOrCreateUser would find for userId.
BalanceOf(us, userId) == IF userId \in DOMAIN us THEN us[userId].balance ELSE initialBalance

\* The sum of the amounts of the bets of bs at the positions in ids.
RECURSIVE SumAmounts(_, _)
SumAmounts(bs, ids) ==
    IF ids = {} THEN 0
    ELSE LET i == CHOOSE x \in ids : TRUE
         IN bs[i].amount + SumAmounts(bs, ids \ {i})

\* What userId has staked on marketId, over all stored bets.
StakeOn(bs, marketId, userId) ==
    SumAmounts(bs, {i \in DOMAIN bs : bs[i].marketId = marketId /\ bs[i].bettorId = userId})

\* C1: once a market's stored status is RESOLVED or CANCELLED, no step of the
\* facade changes that market's status.
C1_TerminalStatusIsFinal ==
    [][\A i \in DOMAIN markets :
          Terminal(markets[i]) => markets'[i].status = markets[i].status]_vars

\* C2: cancelMarket on a market that cancelMarket has already cancelled throws
\* CONFLICT and leaves every market, bet and user as stored.
C2_SecondCancelConflicts ==
    \A marketId \in DOMAIN markets :
        markets[marketId].status = "CANCELLED" =>
            LET r == cancelMarket(Current, marketId, {"void"})
            IN r.err = CONFLICT /\ r.markets = markets /\ r.bets = bets /\ r.users = users

\* C3: resolveMarket on a stored OPEN or CLOSED market, naming one of its
\* outcomes, returns and leaves the market RESOLVED with that winner.
C3_ResolveReachable ==
    \A marketId \in DOMAIN markets :
        \A w \in DOMAIN markets[marketId].outcomes :
            markets[marketId].status \in {"OPEN", "CLOSED"} =>
                LET r == resolveMarket(Current, [marketId |-> marketId, winningOutcomeId |-> w])
                IN /\ r.err = OK
                   /\ r.markets[marketId].status = "RESOLVED"
                   /\ r.markets[marketId].winningOutcomeId = {w}

\* C4: resolveMarket on a stored RESOLVED market with a winner set changes
\* neither the winner, nor any bet, nor any user, whatever outcome it names.
C4_WinnerIsFixed ==
    \A marketId \in DOMAIN markets :
        \A w \in OutcomeIds :
            (markets[marketId].status = "RESOLVED" /\ markets[marketId].winningOutcomeId # {}) =>
                LET r == resolveMarket(Current, [marketId |-> marketId, winningOutcomeId |-> w])
                IN /\ r.markets[marketId].winningOutcomeId = markets[marketId].winningOutcomeId
                   /\ r.bets = bets
                   /\ r.users = users

\* C5: a placeBet that returns adds exactly the amount to the market's
\* totalPool and to the chosen outcome's totalBets, takes exactly the amount
\* from the bettor's balance (the initial balance, for a bettor created by
\* this call), and leaves every other market and every other user as stored.
C5_PlaceBetMovesExactlyTheStake ==
    \A input \in BetInputs :
        LET r == placeBet(Current, input, now)
            m == input.marketId
        IN r.err = OK =>
            /\ r.markets[m].totalPool = markets[m].totalPool + input.amount
            /\ r.markets[m].outcomes[input.outcomeId].totalBets
                   = markets[m].outcomes[input.outcomeId].totalBets + input.amount
            /\ r.users[input.bettorId].balance
                   = BalanceOf(users, input.bettorId) - input.amount
            /\ \A i \in DOMAIN markets \ {m} : r.markets[i] = markets[i]
            /\ DOMAIN r.users = DOMAIN users \cup {input.bettorId}
            /\ \A u \in DOMAIN users \ {input.bettorId} : r.users[u] = users[u]

\* C5's case: two markets and two users are stored and a bet has been placed,
\* in a state where a further bet would be accepted.
C5_Witness ==
    /\ Len(markets) = 2
    /\ DOMAIN users = UserIds
    /\ Len(bets) >= 1
    /\ \E input \in BetInputs : placeBet(Current, input, now).err = OK

\* C6: every market's totalPool is the sum of the amounts of the stored bets
\* on it that are not refunded.
C6_PoolIsSumOfLiveBets ==
    \A marketId \in DOMAIN markets :
        markets[marketId].totalPool =
            SumAmounts(bets, {i \in DOMAIN bets :
                                 bets[i].marketId = marketId /\ bets[i].status # "refunded"})

\* C7: placeBet on a stored market that is not OPEN throws INVALID_INPUT and
\* leaves the storage as it was: no bet stored, no market total and no user
\* changed, no user created.
C7_ClosedMarketRejectsBets ==
    \A input \in BetInputs :
        (input.marketId \in DOMAIN markets /\ markets[input.marketId].status # "OPEN") =>
            LET r == placeBet(Current, input, now)
            IN /\ r.err = INVALID_INPUT
               /\ r.bets = bets
               /\ r.markets = markets
               /\ r.users = users

\* C7's case: a CLOSED market, not yet past its close time, that holds a bet,
\* and a bettor who could afford the stake the call names.
C7_Witness ==
    \E input \in BetInputs :
        /\ input.marketId \in DOMAIN markets
        /\ markets[input.marketId].status = "CLOSED"
        /\ now <= markets[input.marketId].closesAt
        /\ markets[input.marketId].totalPool > 0
        /\ input.outcomeId \in DOMAIN markets[input.marketId].outcomes
        /\ input.amount > 0
        /\ BalanceOf(users, input.bettorId) >= input.amount
        /\ placeBet(Current, input, now).err = INVALID_INPUT

\* C8: cancelMarket on a stored OPEN or CLOSED market returns, leaves the
\* market CANCELLED, every stored bet on it refunded with payout equal to its
\* amount, and every user's balance raised by exactly what that user staked
\* on the market.
C8_CancelRefundsEveryBet ==
    \A marketId \in DOMAIN markets :
        markets[marketId].status \in {"OPEN", "CLOSED"} =>
            LET r == cancelMarket(Current, marketId, {"void"})
            IN /\ r.err = OK
               /\ r.markets[marketId].status = "CANCELLED"
               /\ \A i \in DOMAIN bets :
                     bets[i].marketId = marketId =>
                         r.bets[i].status = "refunded" /\ r.bets[i].payout = {bets[i].amount}
               /\ DOMAIN r.users = DOMAIN users
               /\ \A u \in DOMAIN users :
                     r.users[u].balance = users[u].balance + StakeOn(bets, marketId, u)

\* C8's case: cancelMarket has run on a market on which two bettors had
\* staked; both bets are stored refunded.
C8_Witness ==
    \E marketId \in DOMAIN markets :
        /\ markets[marketId].status = "CANCELLED"
        /\ \E i, j \in DOMAIN bets :
              /\ bets[i].marketId = marketId /\ bets[j].marketId = marketId
              /\ bets[i].bettorId # bets[j].bettorId
              /\ bets[i].status = "refunded" /\ bets[j].status = "refunded"
              /\ bets[i].payout = {bets[i].amount}

\* C9: a resolveMarket that returns for a winning outcome nobody staked on
\* raises every user's balance by exactly what that user staked on the market.
C9_ZeroStakeWinnerRefundsAll ==
    \A marketId \in DOMAIN markets :
        \A w \in DOMAIN markets[marketId].outcomes :
            LET r == resolveMarket(Current, [marketId |-> marketId, winningOutcomeId |-> w])
            IN (r.err = OK /\ markets[marketId].outcomes[w].totalBets = 0) =>
                   \A u \in DOMAIN users :
                       r.users[u].balance = users[u].balance + StakeOn(bets, marketId, u)

\* The stored bets on marketId, in storage order.
BetsOf(marketId) ==
    LET ids == betIdsOf(bets, marketId, 1) IN [k \in DOMAIN ids |-> bets[ids[k]]]

\* C10: a resolveMarket that returns for a winning outcome with positive stake
\* raises every user's balance by exactly that user's entry of the
\* calculatePayouts map (0 without an entry), and what it credits in total is
\* at most totalPool * (1 - feeRate).
C10_WinnersCreditedOnce ==
    \A marketId \in DOMAIN markets :
        \A w \in DOMAIN markets[marketId].outcomes :
            LET r == resolveMarket(Current, [marketId |-> marketId, winningOutcomeId |-> w])
                payouts == calculatePayouts(markets[marketId], w, BetsOf(marketId))
                credited == [u \in DOMAIN users |-> r.users[u].balance - users[u].balance]
            IN (r.err = OK /\ markets[marketId].outcomes[w].totalBets > 0) =>
                   /\ \A u \in DOMAIN users : credited[u] = MapGet(payouts, u)
                   /\ SumAmounts([u \in DOMAIN users |-> [amount |-> credited[u]]], DOMAIN users) * 100
                          <= markets[marketId].totalPool * (100 - markets[marketId].feeRate)

\* C11: cancelMarket on a stored RESOLVED market throws CONFLICT, leaves every
\* market, bet and user as stored, and emits no event, with or without a
\* reason.
C11_CancelResolvedConflicts ==
    \A marketId \in DOMAIN markets :
        \A reason \in {{}, {"void"}} :
            markets[marketId].status = "RESOLVED" =>
                LET r == cancelMarket(Current, marketId, reason)
                IN /\ r.err = CONFLICT
                   /\ r.markets = markets
                   /\ r.bets = bets
                   /\ r.users = users
                   /\ r.events = <<>>

\* C11's case: a RESOLVED market that holds a bet cancelMarket would
\* otherwise refund.
C11_Witness ==
    \E marketId \in DOMAIN markets :
        /\ markets[marketId].status = "RESOLVED"
        /\ \E i \in DOMAIN bets : bets[i].marketId = marketId /\ bets[i].status = "confirmed"
        /\ cancelMarket(Current, marketId, {"void"}).err = CONFLICT

\* Calls c and d are two placeBet calls by one bettor, whom both found
\* stored, and both have returned.
BothReturned(c, d) ==
    /\ c # d
    /\ calls[c].pc = "done" /\ calls[c].err = OK /\ calls[c].found
    /\ calls[d].pc = "done" /\ calls[d].err = OK /\ calls[d].found
    /\ The(calls[c].input).bettorId = The(calls[d].input).bettorId

\* C12: when two interleaved placeBet calls by one stored bettor have both
\* returned, both bets are stored and both stakes have been debited in full
\* from the stored balance, whether or not the balance covered both: the
\* balance is the initial balance less both stakes, and may be below zero.
C12_BothCallsDebit ==
    \A c, d \in Calls :
        BothReturned(c, d) =>
            LET userId == The(calls[c].input).bettorId
            IN /\ Len(bets) = 2
               /\ \A i \in DOMAIN bets : bets[i].bettorId = userId
               /\ users[userId].balance =
                      initialBalance - The(calls[c].input).amount - The(calls[d].input).amount

\* C12's case, the double spend: both calls have returned and both bets are
\* stored, the bettor's balance covered each stake but not both, and the
\* stored balance is below zero.
C12_Witness ==
    \E c, d \in Calls :
        /\ BothReturned(c, d)
        /\ Len(bets) = 2
        /\ The(calls[c].input).amount <= initialBalance
        /\ The(calls[d].input).amount <= initialBalance
        /\ The(calls[c].input).amount + The(calls[d].input).amount > initialBalance
        /\ users[The(calls[c].input).bettorId].balance < 0

\* How many events of the kind are in evs.
CountEvents(evs, kind) == Cardinality({k \in DOMAIN evs : evs[k][1] = kind})

\* C13: getOrCreateUser for an id that is not stored stores a user with the
\* initial balance, emits user:created once and leaves every other user as
\* stored; for a stored id it leaves the users as stored (the balance is not
\* reset) and emits nothing; a second call straight after the first changes
\* nothing and emits nothing. placeBet and addFunds, which reach it first for
\* a new bettor, emit user:created once for a new user and never otherwise.
C13_GetOrCreateUserIsLazyAndIdempotent ==
    /\ \A userId \in UserIds :
          LET g == getOrCreateUser(users, userId)
              h == getOrCreateUser(g.users, userId)
          IN /\ userId \notin DOMAIN users =>
                    /\ g.users[userId].balance = initialBalance
                    /\ g.events = <<<<"user:created", userId>>>>
                    /\ DOMAIN g.users = DOMAIN users \cup {userId}
                    /\ \A u \in DOMAIN users : g.users[u] = users[u]
             /\ userId \in DOMAIN users => (g.users = users /\ g.events = <<>>)
             /\ h.users = g.users
             /\ h.events = <<>>
    /\ \A input \in BetInputs :
          LET r == placeBet(Current, input, now)
          IN CountEvents(r.events, "user:created") =
                 IF DOMAIN r.users = DOMAIN users THEN 0 ELSE 1
    /\ \A userId \in UserIds, amount \in FundAmounts :
          LET r == addFunds(Current, userId, amount)
          IN CountEvents(r.events, "user:created") =
                 IF DOMAIN r.users = DOMAIN users THEN 0 ELSE 1

\* C13's case: one user is stored with a balance that is no longer the
\* initial balance, the other user is not stored yet.
C13_Witness ==
    \E u, v \in UserIds :
        /\ u \in DOMAIN users
        /\ users[u].balance # initialBalance
        /\ v \notin DOMAIN users
        /\ getOrCreateUser(users, u).users = users

\* The amounts addFunds is tried with: negative, zero and positive.
C14_Amounts == {0 - 100, 0, 100}

\* C14: addFunds with an amount of zero or less throws INVALID_INPUT, leaves
\* the storage as it was (no user created) and emits nothing; with a positive
\* amount it returns, raises that user's balance (the initial balance, for a
\* user it creates) by exactly the amount, and leaves every other user, every
\* market and every bet as stored.
C14_AddFundsCreditsExactly ==
    \A userId \in UserIds, amount \in C14_Amounts :
        LET r == addFunds(Current, userId, amount)
        IN /\ amount <= 0 =>
                /\ r.err = INVALID_INPUT
                /\ r.markets = markets /\ r.bets = bets /\ r.users = users
                /\ r.events = <<>>
           /\ amount > 0 =>
                /\ r.err = OK
                /\ r.users[userId].balance = BalanceOf(users, userId) + amount
                /\ DOMAIN r.users = DOMAIN users \cup {userId}
                /\ \A u \in DOMAIN users \ {userId} : r.users[u] = users[u]
                /\ r.markets = markets /\ r.bets = bets

\* C14's case: addFunds has credited one of two stored users, who has placed
\* no bet, and the other user's balance is as it was.
C14_Witness ==
    \E u, v \in DOMAIN users :
        /\ u # v
        /\ bets = <<>>
        /\ users[u].balance = initialBalance + 100
        /\ users[v].balance = initialBalance

\* C15: checkAndCloseExpiredMarkets returns; every market that was OPEN with
\* now >= closesAt is stored CLOSED and otherwise as it was, every other
\* market, every bet and every user is as stored, no stored market is left
\* OPEN with closesAt <= now, the returned list holds exactly the ids of the
\* markets closed, each once, and the events are one market:closed per
\* returned id.
C15_ClosesExactlyTheExpired ==
    LET r == checkAndCloseExpiredMarkets(Current, now)
        due == {i \in DOMAIN markets :
                  markets[i].status = "OPEN" /\ now >= markets[i].closesAt}
    IN /\ r.err = OK
       /\ DOMAIN r.markets = DOMAIN markets
       /\ \A i \in due : r.markets[i] = [markets[i] EXCEPT !.status = "CLOSED"]
       /\ \A i \in DOMAIN markets \ due : r.markets[i] = markets[i]
       /\ \A i \in DOMAIN r.markets :
             ~(r.markets[i].status = "OPEN" /\ r.markets[i].closesAt <= now)
       /\ r.bets = bets
       /\ r.users = users
       /\ {r.closed[k] : k \in DOMAIN r.closed} = due
       /\ Len(r.closed) = Cardinality(due)
       /\ r.events = [k \in DOMAIN r.closed |-> <<"market:closed", r.closed[k]>>]

\* C15's case: at its close time one OPEN market is due, another OPEN market
\* closes later, and the call closes the first and not the second.
C15_Witness ==
    \E i, j \in DOMAIN markets :
        /\ markets[i].status = "OPEN" /\ now = markets[i].closesAt
        /\ markets[j].status = "OPEN" /\ now < markets[j].closesAt
        /\ checkAndCloseExpiredMarkets(Current, now).closed = <<i>>

\* The call threw MARKET_NOT_FOUND, left the storage as it was and emitted
\* nothing.
NotFoundUntouched(r) ==
    /\ r.err = MARKET_NOT_FOUND
    /\ r.markets = markets /\ r.bets = bets /\ r.users = users
    /\ r.events = <<>>

\* C16: for a market id that is not stored, closeMarket, resolveMarket,
\* cancelMarket, placeBet, getMarketStats and calculatePayout each throw
\* MARKET_NOT_FOUND, leave every market, bet and user as stored (placeBet
\* creates no user) and emit no event, whatever their other arguments.
C16_UnknownMarketIsNotFound ==
    \A marketId \in (MarketIds \cup {0}) \ DOMAIN markets :
        /\ NotFoundUntouched(closeMarket(Current, marketId))
        /\ \A w \in OutcomeIds :
              NotFoundUntouched(resolveMarket(Current, [marketId |-> marketId,
                                                        winningOutcomeId |-> w]))
        /\ \A reason \in {{}, {"void"}} :
              NotFoundUntouched(cancelMarket(Current, marketId, reason))
        /\ \A input \in BetInputs :
              NotFoundUntouched(placeBet(Current, [input EXCEPT !.marketId = marketId], now))
        /\ NotFoundUntouched(getMarketStats(Current, marketId))
        /\ \A outcomeId \in OutcomeIds, amount \in BetAmounts :
              NotFoundUntouched(calculatePayout(Current, marketId, outcomeId, amount))

\* C16's case: one market is stored with a bet on it, the second id is not
\* stored, and a bettor who is not stored yet names it.
C16_Witness ==
    /\ Len(markets) = 1
    /\ bets # <<>>
    /\ \E u \in UserIds : u \notin DOMAIN users
    /\ closeMarket(Current, 2).err = MARKET_NOT_FOUND

\* The createMarket inputs C17 is tried with at time t: those the facade is
\* driven with and the edges of every rule.
C17_Inputs(t) ==
    CreateInputs(t) \cup
    { [BaseInput EXCEPT !.feeRate = {0}],
      [BaseInput EXCEPT !.feeRate = {50}],
      [BaseInput EXCEPT !.feeRate = {0 - 1}],
      [BaseInput EXCEPT !.nOutcomes = 0],
      [BaseInput EXCEPT !.nOutcomes = 3],
      [BaseInput EXCEPT !.closesAt = t - 1],
      [BaseInput EXCEPT !.closesAt = t + 1],
      [BaseInput EXCEPT !.minBet = {100}, !.maxBet = {100}],
      [BaseInput EXCEPT !.minBet = {0}, !.maxBet = {0}],
      [BaseInput EXCEPT !.minBet = {0 - 100}, !.maxBet = {}],
      [BaseInput EXCEPT !.minBet = {0 - 200}, !.maxBet = {0 - 100}],
      [BaseInput EXCEPT !.minBet = {100}, !.maxBet = {}],
      [BaseInput EXCEPT !.question = FALSE, !.feeRate = {51}] }

\* The input has none of the faults the claim lists: a question, at least 2
\* outcomes, a close time in the future, a fee rate within [0, 0.5] when
\* given, minBet <= maxBet when both are given, neither negative.
C17_WellFormed(input, t) ==
    /\ input.question
    /\ input.nOutcomes >= 2
    /\ input.closesAt > t
    /\ \A f \in input.feeRate : 0 <= f /\ f <= 50
    /\ \A lo \in input.minBet : \A hi \in input.maxBet : lo <= hi
    /\ \A lo \in input.minBet : lo >= 0
    /\ \A hi \in input.maxBet : hi >= 0

\* C17: createMarket with an input that has one of the listed faults throws
\* INVALID_CONFIG, stores nothing and emits nothing; with an input that has
\* none it returns, stores exactly one new market, OPEN with totalPool 0,
\* after the stored markets, which it leaves as they were, and emits one
\* market:created and nothing else.
C17_CreateMarketValidates ==
    \A input \in C17_Inputs(now) :
        LET r == createMarket(Current, input, now)
            id == Len(markets) + 1
        IN IF C17_WellFormed(input, now)
           THEN /\ r.err = OK
                /\ Len(r.markets) = id
                /\ \A i \in DOMAIN markets : r.markets[i] = markets[i]
                /\ r.markets[id].status = "OPEN"
                /\ r.markets[id].totalPool = 0
                /\ Len(r.markets[id].outcomes) = input.nOutcomes
                /\ r.bets = bets /\ r.users = users
                /\ r.events = <<<<"market:created", id>>>>
           ELSE /\ r.err = INVALID_CONFIG
                /\ r.markets = markets /\ r.bets = bets /\ r.users = users
                /\ r.events = <<>>

\* C17's case: createMarket has stored a market, OPEN with an empty pool;
\* time has moved on, so an input that closes now is refused and one that
\* closes later is accepted.
C17_Witness ==
    /\ Len(markets) = 1
    /\ markets[1].status = "OPEN" /\ markets[1].totalPool = 0
    /\ now = 1
    /\ createMarket(Current, [BaseInput EXCEPT !.closesAt = 1], now).err = INVALID_CONFIG
    /\ createMarket(Current, [BaseInput EXCEPT !.closesAt = 2], now).err = OK

\* The placement rules that do not depend on the time of the call: the
\* outcome is one of the market's, the amount is positive and within the
\* market's minBet and maxBet when set, the bettor is on the allowlist when
\* the market has one.
C18_WithinRules(market, bettorId, outcomeId, amount) ==
    /\ outcomeId \in DOMAIN market.outcomes
    /\ amount > 0
    /\ \A lo \in market.minBet : amount >= lo
    /\ \A hi \in market.maxBet : amount <= hi
    /\ \A allowed \in market.allowedBettors : bettorId \in allowed

\* C18: a placeBet that returns was called on a stored market that was OPEN
\* and not past its close time (now <= closesAt), within the placement rules,
\* and stores exactly one bet, which carries the input's market, bettor,
\* outcome and amount; and every stored bet is within the placement rules of
\* its market.
C18_StoredBetsWereAcceptable ==
    /\ \A input \in BetInputs :
          LET r == placeBet(Current, input, now)
          IN r.err = OK =>
               /\ input.marketId \in DOMAIN markets
               /\ markets[input.marketId].status = "OPEN"
               /\ now <= markets[input.marketId].closesAt
               /\ C18_WithinRules(markets[input.marketId], input.bettorId,
                                   input.outcomeId, input.amount)
               /\ Len(r.bets) = Len(bets) + 1
               /\ \A i \in DOMAIN bets : r.bets[i] = bets[i]
               /\ r.bets[Len(r.bets)].marketId = input.marketId
               /\ r.bets[Len(r.bets)].bettorId = input.bettorId
               /\ r.bets[Len(r.bets)].outcomeId = input.outcomeId
               /\ r.bets[Len(r.bets)].amount = input.amount
    /\ \A i \in DOMAIN bets :
          /\ bets[i].marketId \in DOMAIN markets
          /\ C18_WithinRules(markets[bets[i].marketId], bets[i].bettorId,
                              bets[i].outcomeId, bets[i].amount)

\* C18's case: a bet is stored on a market that sets minBet, maxBet and an
\* allowlist, next to a bet on a market without an allowlist.
C18_Witness ==
    \E i, j \in DOMAIN bets :
        /\ markets[bets[i].marketId].minBet # {}
        /\ markets[bets[i].marketId].maxBet # {}
        /\ markets[bets[i].marketId].allowedBettors # {}
        /\ markets[bets[j].marketId].allowedBettors = {}

\* The rationals a and b are the same number.
RatEq(a, b) == a[1] * b[2] = b[1] * a[2]

\* The outcome carries the uniform values of a market of n outcomes.
IsUniform(outcome, n) == RatEq(outcome.odds, <<n, 1>>) /\ RatEq(outcome.probability, <<1, n>>)

\* C19: for every stored market with totalPool 0, calculateOdds and getMarket
\* give every outcome odds equal to the number of outcomes and probability
\* 1 / that number; so does the market a createMarket that returns has
\* stored, as stored and through calculateOdds, for 2 and for 3 outcomes.
C19_EmptyPoolIsUniform ==
    /\ \A marketId \in DOMAIN markets :
          markets[marketId].totalPool = 0 =>
              LET n == Len(markets[marketId].outcomes)
                  computed == calculateOdds(markets[marketId])
                  got == The(getMarket(Current, marketId).value)
              IN \A i \in 1 .. n :
                    /\ IsUniform(computed[i], n)
                    /\ IsUniform(got.outcomes[i], n)
    /\ \A input \in C17_Inputs(now) :
          LET r == createMarket(Current, input, now)
              created == r.markets[Len(r.markets)]
          IN r.err = OK =>
                 /\ created.totalPool = 0
                 /\ Len(created.outcomes) = input.nOutcomes
                 /\ \A i \in 1 .. input.nOutcomes :
                       /\ IsUniform(created.outcomes[i], input.nOutcomes)
                       /\ IsUniform(calculateOdds(created)[i], input.nOutcomes)

\* C19's case: a market with an empty pool is stored next to one that holds
\* a stake, and getMarket returns the first.
C19_Witness ==
    \E i, j \in DOMAIN markets :
        /\ markets[i].totalPool = 0
        /\ markets[j].totalPool > 0
        /\ getMarket(Current, i).value # {}

\* The integer k is n/d rounded to a nearest integer: within a half (d > 0).
IsNearest(k, n, d) == 2 * k * d - d <= 2 * n /\ 2 * n <= 2 * k * d + d

\* The stakes C20 adds to the outcomes of a stored market.
C20_Stakes == {0, 100, 200, 300}

\* C20: for every stored market, with any further stakes on its first two
\* outcomes, that has a non-empty pool, calculateOdds gives an outcome with
\* positive totalBets the odds totalPool * (1 - feeRate) / totalBets as the
\* nearest hundredth and the probability totalBets / totalPool as the nearest
\* thousandth, and gives an outcome with zero totalBets the uniform values;
\* with feeRate 0.02 and all of the pool on outcome 1 of 2, outcome 1 has
\* odds 0.98 and probability 1.
C20_OddsFollowThePool ==
    \A marketId \in DOMAIN markets :
        \A a \in C20_Stakes, b \in C20_Stakes :
            LET staked == [markets[marketId] EXCEPT
                              !.outcomes[1].totalBets = @ + a,
                              !.outcomes[2].totalBets = @ + b,
                              !.totalPool = @ + a + b]
                n == Len(staked.outcomes)
                computed == calculateOdds(staked)
            IN staked.totalPool > 0 =>
                /\ \A i \in 1 .. n :
                      IF staked.outcomes[i].totalBets > 0
                      THEN /\ computed[i].odds[2] = 100
                           /\ IsNearest(computed[i].odds[1],
                                        staked.totalPool * (100 - staked.feeRate),
                                        staked.outcomes[i].totalBets)
                           /\ computed[i].probability[2] = 1000
                           /\ IsNearest(computed[i].probability[1],
                                        staked.outcomes[i].totalBets * 1000,
                                        staked.totalPool)
                      ELSE IsUniform(computed[i], n)
                /\ (staked.feeRate = 2 /\ staked.outcomes[2].totalBets = 0) =>
                      /\ RatEq(computed[1].odds, <<98, 100>>)
                      /\ RatEq(computed[1].probability, <<1, 1>>)

\* C20's case, the example: a stored two-outcome market with feeRate 0.02
\* and one bet of 100 on its first outcome, none on its second.
C20_Witness ==
    \E marketId \in DOMAIN markets :
        /\ markets[marketId].feeRate = 2
        /\ Len(markets[marketId].outcomes) = 2
        /\ markets[marketId].totalPool = 100
        /\ markets[marketId].outcomes[1].totalBets = 100
        /\ markets[marketId].outcomes[1].betCount = 1
        /\ markets[marketId].outcomes[2].totalBets = 0
        /\ RatEq(markets[marketId].outcomes[1].odds, <<98, 100>>)

\* The sum of the values of a payouts map.
SumPayouts(payouts) ==
    SumAmounts([u \in DOMAIN payouts |-> [amount |-> payouts[u]]], DOMAIN payouts)

\* The stored bets on the outcome of the market.
BetsOn(marketId, outcomeId) ==
    {i \in DOMAIN bets : bets[i].marketId = marketId /\ bets[i].outcomeId = outcomeId}

\* C21: for a market and its stored bets, consistent with each other, and a
\* winning outcome with positive stake, the values of the calculatePayouts
\* map add up to at most totalPool * (1 - feeRate) plus half a cent for each
\* winning bet (each bet's share is rounded to the nearest cent).
C21_PayoutsWithinThePool ==
    \A marketId \in DOMAIN markets :
        \A w \in DOMAIN markets[marketId].outcomes :
            LET market == markets[marketId]
                payouts == calculatePayouts(market, w, BetsOf(marketId))
            IN (/\ market.outcomes[w].totalBets > 0
                /\ market.outcomes[w].totalBets = SumAmounts(bets, BetsOn(marketId, w))) =>
                   200 * SumPayouts(payouts)
                       <= 2 * market.totalPool * (100 - market.feeRate)
                          + 100 * Cardinality(BetsOn(marketId, w))

\* C21's case: rounding has pushed the payouts above the payout pool, by no
\* more than the rounding of two winning bets.
C21_Witness ==
    \E w \in DOMAIN markets[1].outcomes :
        /\ markets[1].outcomes[w].totalBets > 0
        /\ Cardinality(BetsOn(1, w)) = 2
        /\ 100 * SumPayouts(calculatePayouts(markets[1], w, BetsOf(1)))
               > markets[1].totalPool * (100 - markets[1].feeRate)

\* C22: for a winning outcome of the market that nobody staked on,
\* calculatePayouts of the market's stored bets returns a map whose keys are
\* exactly the bettors of those bets, each mapped to the sum of the amounts of
\* their bets.
C22_ZeroStakeWinnerMapsStakes ==
    \A marketId \in DOMAIN markets :
        \A w \in DOMAIN markets[marketId].outcomes :
            LET payouts == calculatePayouts(markets[marketId], w, BetsOf(marketId))
            IN markets[marketId].outcomes[w].totalBets = 0 =>
                   /\ DOMAIN payouts =
                          {bets[i].bettorId : i \in {j \in DOMAIN bets : bets[j].marketId = marketId}}
                   /\ \A u \in DOMAIN payouts : payouts[u] = StakeOn(bets, marketId, u)

\* C22's case: one bettor has two bets on the market, of different amounts,
\* and an outcome of the market has no stake.
C22_Witness ==
    /\ Len(bets) = 2
    /\ bets[1].bettorId = bets[2].bettorId
    /\ bets[1].amount # bets[2].amount
    /\ \E w \in DOMAIN markets[1].outcomes : markets[1].outcomes[w].totalBets = 0

\* A bet without the two fields that settlement writes.
Placed(bet) == [bet EXCEPT !.status = "confirmed", !.payout = {}]

\* The result keeps every stored bet as it is.
BetsKept(r) ==
    /\ DOMAIN bets \subseteq DOMAIN r.bets
    /\ \A i \in DOMAIN bets : r.bets[i] = bets[i]

\* The result of settling marketId changes at most status and payout, and only
\* of the bets on marketId, and stores no further bet.
BetsSettled(r, marketId) ==
    /\ DOMAIN r.bets = DOMAIN bets
    /\ \A i \in DOMAIN bets :
           /\ Placed(r.bets[i]) = Placed(bets[i])
           /\ bets[i].marketId # marketId => r.bets[i] = bets[i]

\* C26: no SDK operation changes the marketId, bettorId, outcomeId, amount,
\* potentialPayout or oddsAtBet of a stored bet (its id is its position in the
\* storage); a bet is stored with status confirmed and no payout, and status
\* and payout are changed only by resolveMarket and cancelMarket, and only for
\* bets on the market resolved or cancelled.
C26_BetsChangeOnlyBySettlement ==
    /\ \A input \in CreateInputs(now) : BetsKept(createMarket(Current, input, now))
    /\ \A marketId \in MarketIds : BetsKept(closeMarket(Current, marketId))
    /\ \A userId \in UserIds, amount \in FundAmounts :
           BetsKept(addFunds(Current, userId, amount))
    /\ BetsKept(checkAndCloseExpiredMarkets(Current, now))
    /\ \A input \in BetInputs :
           LET r == placeBet(Current, input, now)
           IN /\ BetsKept(r)
              /\ \A i \in DOMAIN r.bets \ DOMAIN bets :
                     r.bets[i].status = "confirmed" /\ r.bets[i].payout = {}
    /\ \A marketId \in MarketIds, w \in OutcomeIds :
           BetsSettled(resolveMarket(Current, [marketId |-> marketId,
                                               winningOutcomeId |-> w]), marketId)
    /\ \A marketId \in MarketIds :
           BetsSettled(cancelMarket(Current, marketId, {"void"}), marketId)

\* C26's case: settlement has acted on one market (its bet is won, lost or
\* refunded, with a payout) while a bet on another market is still confirmed.
C26_Witness ==
    \E i, j \in DOMAIN bets :
        /\ bets[i].marketId # bets[j].marketId
        /\ bets[i].status \in {"won", "lost", "refunded"}
        /\ bets[i].payout # {}
        /\ bets[j].status = "confirmed"
        /\ bets[j].payout = {}

\* The bet-level events of the list that name the bet.
BetEvents(evs, betId) ==
    {k \in DOMAIN evs : evs[k][1] \in {"bet:won", "bet:lost"} /\ evs[k][2] = betId}

\* C28: a resolveMarket call that returns emits one bet:won or bet:lost event
\* for each stored bet on the market and none for a bet on another market,
\* and one market:resolved event, which is the last event of the call.
C28_OneEventPerBetThenResolved ==
    \A marketId \in MarketIds, w \in OutcomeIds :
        LET r == resolveMarket(Current, [marketId |-> marketId, winningOutcomeId |-> w])
        IN r.err = OK =>
               /\ \A i \in DOMAIN bets :
                      Cardinality(BetEvents(r.events, i)) =
                          IF bets[i].marketId = marketId THEN 1 ELSE 0
               /\ CountEvents(r.events, "market:resolved") = 1
               /\ r.events[Len(r.events)] = <<"market:resolved", marketId>>

\* C28's case: resolveMarket returns on a market with a winning and a losing
\* bet.
C28_Witness ==
    \E marketId \in MarketIds, w \in OutcomeIds :
        LET r == resolveMarket(Current, [marketId |-> marketId, winningOutcomeId |-> w])
        IN /\ r.err = OK
           /\ CountEvents(r.events, "bet:won") = 1
           /\ CountEvents(r.events, "bet:lost") = 1

\* The amount cancelMarket of the market still owes the user: the stakes of
\* the user's bets on the market that have not been refunded.
Unrefunded(marketId, userId) ==
    SumAmounts(bets, {i \in DOMAIN bets : /\ bets[i].marketId = marketId
                                          /\ bets[i].bettorId = userId
                                          /\ bets[i].status # "refunded"})

\* C29: a stake is returned at most once: cancelMarket credits a user no more
\* than the stakes of the user's bets on the market that have not been
\* refunded before.
C29_StakeReturnedAtMostOnce ==
    \A marketId \in DOMAIN markets :
        LET r == cancelMarket(Current, marketId, {"void"})
        IN \A u \in DOMAIN users :
               r.users[u].balance - users[u].balance <= Unrefunded(marketId, u)

\* The bets of the market that the loop of the call has been through.
Settled(c) ==
    {i \in DOMAIN bets : /\ bets[i].marketId = The(calls[c].input).marketId
                         /\ \A k \in DOMAIN calls[c].todo : calls[c].todo[k] # i}

\* C27: in every state of a resolveMarket call in which the call's loop has
\* marked a bet of the market won or lost (and credited its payout), the
\* stored market has status RESOLVED and the call's winningOutcomeId.
C27_MarketResolvedBeforeBets ==
    \A c \in Calls :
        (/\ calls[c].op = "resolveMarket"
         /\ calls[c].pc \in {"persist", "loop"}
         /\ \E i \in Settled(c) : bets[i].status \in {"won", "lost"}) =>
            LET input == The(calls[c].input)
            IN /\ markets[input.marketId].status = "RESOLVED"
               /\ markets[input.marketId].winningOutcomeId = {input.winningOutcomeId}

\* C27's case: a resolveMarket call that names another winner than the stored
\* one is inside its loop: one bet is marked, another is still confirmed.
C27_Witness ==
    \E c \in Calls :
        /\ calls[c].op = "resolveMarket"
        /\ calls[c].pc = "loop"
        /\ calls[c].todo # <<>>
        /\ bets[Head(calls[c].todo)].status = "confirmed"
        /\ \E i \in Settled(c) : bets[i].status = "won" /\ bets[i].payout # {0}

\* C30: once a cancelMarket call has returned, every stored bet on its market
\* has status refunded, also when placeBet calls on the market run between
\* the cancel's segments.
C30_CancelledLeavesNoConfirmedBet ==
    \A c \in Calls :
        (calls[c].op = "cancelMarket" /\ calls[c].pc = "done" /\ calls[c].err = OK) =>
            \A i \in DOMAIN bets :
                bets[i].marketId = The(calls[c].input).marketId => bets[i].status = "refunded"

\* The objects as they come back from JSON.
AsJSON(objs) == {parse(stringify(obj)) : obj \in objs}

\* C23: after the same saveMarket / saveBet / saveUser / delete calls,
\* LocalStorage's getAllMarkets, getAllBets, getAllUsers and exportData return
\* the objects that MemoryStorage's return.
C23_AdaptersReturnTheSame ==
    /\ localGetAllMarkets(storage.local) = AsJSON(memoryGetAll(storage.memory, "market"))
    /\ localGetAll(storage.local, "bet") = AsJSON(memoryGetAll(storage.memory, "bet"))
    /\ localGetAll(storage.local, "user") = AsJSON(memoryGetAll(storage.memory, "user"))
    /\ \A list \in {"markets", "bets", "users"} :
           localExportData(storage.local)[list] =
               AsJSON(memoryExportData(storage.memory)[list])

\* The functions that emit of the type calls.
Invoked(E, type) == {emit(E, type).invoked[k] : k \in DOMAIN emit(E, type).invoked}

\* The emitter holds a listener of the type with the function and the flag.
Holds(E, type, fn, isOnce) ==
    \E k \in DOMAIN E.listeners[type] :
        E.listeners[type][k].fn = fn /\ E.listeners[type][k].once = isOnce

\* The emitter after one more call that is not off(type, callback) and not
\* the unsubscribe function of on(type, callback).
AfterOtherCall(E, type, callback) ==
    {on(E, t, cb) : t \in SubscribedTypes, cb \in Callbacks}
    \cup {once(E, t, cb) : t \in SubscribedTypes, cb \in Callbacks}
    \cup {off(E, p[1], p[2]) : p \in (SubscribedTypes \X Callbacks) \ {<<type, callback>>}}
    \cup {unsubscribe(E, p[1], p[2]) : p \in E.issued \ {<<type, callback>>}}
    \cup {onAny(E)}
    \cup {unsubscribeAny(E, h) : h \in 1 .. E.handlers}
    \cup {emit(E, t).emitter : t \in EventTypes}

\* C24: a callback registered with on(type) is called for every emitted
\* event of the type, and stays registered through every call other than
\* off(type, callback) and its unsubscribe function; a callback with no
\* listener of a type is not called for events of that type; after
\* off(type, callback) or the unsubscribe function it is not called; a
\* callback registered only with once(type) is not called for a second event
\* of the type.
C24_ListenersReceiveUntilRemoved ==
    \A type \in EventTypes, callback \in Callbacks :
        /\ Holds(emitter, type, callback, FALSE) =>
               /\ callback \in Invoked(emitter, type)
               /\ \A E \in AfterOtherCall(emitter, type, callback) :
                      Holds(E, type, callback, FALSE)
        /\ (\A k \in DOMAIN emitter.listeners[type] :
                emitter.listeners[type][k].fn # callback) =>
               callback \notin Invoked(emitter, type)
        /\ callback \notin Invoked(off(emitter, type, callback), type)
        /\ <<type, callback>> \in emitter.issued =>
               callback \notin Invoked(unsubscribe(emitter, type, callback), type)
        /\ ~Holds(emitter, type, callback, FALSE) =>
               /\ callback \notin Invoked(emit(emitter, type).emitter, type)
               /\ callback \in Invoked(once(emitter, type, callback), type)
               /\ callback \notin
                      Invoked(emit(once(emitter, type, callback), type).emitter, type)
        /\ callback \in Invoked(on(emitter, type, callback), type)
        /\ callback \in Invoked(emit(on(emitter, type, callback), type).emitter, type)

\* C24's case: one callback is registered with on and another with once for
\* the same type, and the first is also registered for the other type; an
\* event of the type calls both and leaves the first.
C24_Witness ==
    \E type \in SubscribedTypes :
        /\ Holds(emitter, type, <<"callback", 1>>, FALSE)
        /\ <<type, <<"callback", 1>>>> \in emitter.issued
        /\ Holds(emitter, type, <<"callback", 2>>, TRUE)
        /\ ~Holds(emitter, type, <<"callback", 2>>, FALSE)
        /\ Invoked(emitter, type) \cap Callbacks = Callbacks
        /\ Invoked(emit(emitter, type).emitter, type) \cap Callbacks = {<<"callback", 1>>}
        /\ \E other \in SubscribedTypes \ {type} :
               Invoked(emitter, other) \cap Callbacks = {}

\* C25: a wildcard subscriber whose unsubscribe function has not been called
\* is called for an emitted event of every type of the enumeration.
C25_WildcardReceivesEveryType ==
    \A h \in (1 .. emitter.handlers) \ emitter.cancelled :
        \A type \in EventTypes : handler(h) \in Invoked(emitter, type)

\* C31: with operations run one at a time, no stored user's balance is below
\* zero.
C31_BalanceNeverNegative ==
    \A u \in DOMAIN users : users[u].balance >= 0

\* C31's case: a user's bets have used up the whole balance, and a further
\* bet of that user is rejected for insufficient balance.
C31_Witness ==
    \E input \in BetInputs :
        /\ input.bettorId \in DOMAIN users
        /\ users[input.bettorId].balance = 0
        /\ placeBet(Current, input, now).err = INSUFFICIENT_BALANCE

\* The sum of the outcomes' totalBets.
SumTotalBets(outcomes) ==
    SumAmounts([o \in DOMAIN outcomes |-> [amount |-> outcomes[o].totalBets]], DOMAIN outcomes)

\* C32: for every stored market the outcomes' totalBets add up to totalPool,
\* and each outcome's betCount is the number of stored bets on that outcome.
C32_TotalsMatchPoolAndBets ==
    \A marketId \in DOMAIN markets :
        /\ SumTotalBets(markets[marketId].outcomes) = markets[marketId].totalPool
        /\ \A o \in DOMAIN markets[marketId].outcomes :
               markets[marketId].outcomes[o].betCount = Cardinality(BetsOn(marketId, o))

\* C32's case: a market holds bets on two of its outcomes and has been
\* cancelled since, a second market holds none.
C32_Witness ==
    \E marketId \in DOMAIN markets :
        /\ Len(markets) = 2
        /\ markets[marketId].status = "CANCELLED"
        /\ BetsOn(marketId, 1) # {}
        /\ BetsOn(marketId, 2) # {}

\* C33: at a time at which checkAndCloseExpiredMarkets closes an OPEN market,
\* every placeBet on that market throws INVALID_INPUT.
C33_NoBetOnceExpired ==
    \A input \in BetInputs :
        (/\ input.marketId \in DOMAIN markets
         /\ isExpired(markets[input.marketId], now)) =>
            placeBet(Current, input, now).err = INVALID_INPUT

\* The bets that no balance covers.
C36_Inputs ==
    { [marketId |-> 1, bettorId |-> u, outcomeId |-> 1, amount |-> a] :
        u \in UserIds, a \in {200, 400} }

\* C36: a placeBet that throws INSUFFICIENT_BALANCE leaves the markets, the
\* bets and the users as stored and emits no event.
C36_RejectedBetChangesNothing ==
    \A input \in C36_Inputs :
        LET r == placeBet(Current, input, now)
        IN r.err = INSUFFICIENT_BALANCE =>
               /\ r.markets = markets
               /\ r.bets = bets
               /\ r.users = users
               /\ r.events = <<>>

\* C37: addFunds and cancelMarket leave the totalWon of every stored user as
\* it is.
C37_TotalWonOnlyFromPayouts ==
    /\ \A userId \in UserIds, amount \in FundAmounts :
           \A u \in DOMAIN users :
               addFunds(Current, userId, amount).users[u].totalWon = users[u].totalWon
    /\ \A marketId \in MarketIds :
           \A u \in DOMAIN users :
               cancelMarket(Current, marketId, {"void"}).users[u].totalWon = users[u].totalWon

\* C34: when two interleaved addFunds calls for one user id have both
\* returned, the stored balance of the user is the initial balance plus both
\* amounts.
C34_BothCreditsCount ==
    \A c, d \in Calls :
        (/\ c # d
         /\ calls[c].op = "addFunds" /\ calls[c].pc = "done" /\ calls[c].err = OK
         /\ calls[d].op = "addFunds" /\ calls[d].pc = "done" /\ calls[d].err = OK
         /\ The(calls[c].input).bettorId = The(calls[d].input).bettorId) =>
            users[The(calls[c].input).bettorId].balance =
                initialBalance + The(calls[c].input).amount + The(calls[d].input).amount

\* C35: over LocalStorage, when two interleaved placeBet calls on one market
\* have both returned, the stored market's totalPool and the sum of its
\* outcomes' totalBets are the sum of both amounts.
C35_BothStakesInThePool ==
    \A c, d \in Calls :
        (/\ c # d
         /\ calls[c].op = "placeBet" /\ calls[c].pc = "done" /\ calls[c].err = OK
         /\ calls[d].op = "placeBet" /\ calls[d].pc = "done" /\ calls[d].err = OK) =>
            LET total == The(calls[c].input).amount + The(calls[d].input).amount
            IN /\ markets[1].totalPool = total
               /\ SumTotalBets(markets[1].outcomes) = total

====
